---------------------------- MODULE Spec2Model ----------------------------
(* A model of the pseudo-C to Verilog translator of cekkr/VerilogSee:      *)
(*   src/adHocRegex.py  the token pipeline (Parser: tokenize, build_ast,   *)
(*                      generate_verilog)                                  *)
(*   src/main.py        the rule pipeline (PseudoCToVerilog and the call   *)
(*                      resolver of AssignmentRule)                        *)
(* Text is modelled as TLA+ strings, indexed character by character.       *)
EXTENDS Integers, Sequences, FiniteSets, TLC

VARIABLES
    variables,          \* context['variables']: ordered name -> Variable
    functions,          \* context['functions']: ordered name -> Function
    sequential_calls,   \* context['sequential_calls']
    live_calls,         \* live_calls[k]: sequential_calls[k] holds the Function
                        \* object that context['functions'] holds under its name
    rules,              \* PseudoCToVerilog.rules: the classes of the rules
    call_counter,       \* context['call_counter']
    current_function,   \* context['current_function']: NoFunction, or
                        \* FunctionRef(name) for the Function of that name
    in_always_block,    \* context['in_always_block']
    input,              \* the argument of the operation under way
    type_info,          \* the value returned by TypeInfo.parse
    result,             \* the value returned by the last call-resolver call
    tokens,             \* Parser.parse_code: the token list
    ast,                \* Parser.build_ast: the tree under construction
    i,                  \* Parser.build_ast: the cursor of the main loop
    verilog,            \* the text returned by the last compilation
    outputs,            \* what the earlier compilations returned, in order
    pc                  \* position of the run

vars == <<variables, functions, sequential_calls, live_calls, rules,
          call_counter,
          current_function, in_always_block, input, type_info, result,
          tokens, ast, i,
          verilog, outputs, pc>>

\* the variables of the token pipeline, idle in the other specifications
pipeline == <<tokens, ast, i, verilog, outputs>>

\* the state of a pipeline that has not run
Idle ==
    /\ tokens = <<>>
    /\ ast = [variables |-> <<>>, functions |-> <<>>, statements |-> <<>>]
    /\ i = 0
    /\ verilog = ""
    /\ outputs = <<>>

-----------------------------------------------------------------------------
(* Characters and strings.                                                 *)

(* A string of this module holds the characters of code 0 to 255; the      *)
(* classes below are those of Python for these characters.                 *)

\* the decimal digits: the digits of int() and of \d
Digits == {"0", "1", "2", "3", "4", "5", "6", "7", "8", "9"}

\* the characters str.isdigit() holds: the decimal digits and the superscripts
DigitChars == Digits \cup {"²", "³", "¹"}

\* the characters str.isalpha() holds
Letters == {"a", "b", "c", "d", "e", "f", "g", "h", "i", "j", "k", "l", "m",
            "n", "o", "p", "q", "r", "s", "t", "u", "v", "w", "x", "y", "z",
            "A", "B", "C", "D", "E", "F", "G", "H", "I", "J", "K", "L", "M",
            "N", "O", "P", "Q", "R", "S", "T", "U", "V", "W", "X", "Y", "Z",
            "ª", "µ", "º", "À", "Á", "Â", "Ã", "Ä", "Å", "Æ", "Ç", "È", "É",
            "Ê", "Ë", "Ì", "Í", "Î", "Ï", "Ð", "Ñ", "Ò", "Ó", "Ô", "Õ", "Ö",
            "Ø", "Ù", "Ú", "Û", "Ü", "Ý", "Þ", "ß", "à", "á", "â", "ã", "ä",
            "å", "æ", "ç", "è", "é", "ê", "ë", "ì", "í", "î", "ï", "ð", "ñ",
            "ò", "ó", "ô", "õ", "ö", "ø", "ù", "ú", "û", "ü", "ý", "þ", "ÿ"}

\* str[n] for a 0-based Python index n
At(s, n) == SubSeq(s, n + 1, n + 1)

\* str[a:b] for 0-based Python indices 0 <= a, b
Slice(s, a, b) == SubSeq(s, a + 1, IF b > Len(s) THEN Len(s) ELSE b)

\* str[a:]
From(s, a) == SubSeq(s, a + 1, Len(s))

\* str.startswith(p)
StartsWith(s, p) == Len(p) <= Len(s) /\ SubSeq(s, 1, Len(p)) = p

\* the whitespace int() strips: the space, the tab, the line feed, the
\* carriage return, the form feed, the vertical tab (code 11), the next line
\* (code 133) and the no-break space (code 160)
IntWhitespace == {" ", "\t", "\n", "\r", "\f", "", "", " "}

\* the whitespace of str.isspace, str.strip, str.split() and \s: these and the
\* four separators of code 28 to 31
Whitespace == IntWhitespace \cup {"", "", "", ""}

\* str.isspace() of a character
isspace(c) == c \in Whitespace

isdigit(c) == c \in DigitChars

isalpha(c) == c \in Letters

\* the characters str.isalnum() holds: the fractions are numeric
AlphaNumerics == Letters \cup DigitChars \cup {"¼", "½", "¾"}

isalnum(c) == c \in AlphaNumerics

WordChars == AlphaNumerics \cup {"_"}

\* the regular expression class \w
IsWord(c) == c \in WordChars

\* the first (least) of the indexes found, or none when nothing is found
Least(found, none) ==
    IF found = {} THEN none
    ELSE CHOOSE k \in found : \A x \in found : k <= x

\* str.find(sep, start): the 0-based index of the first occurrence, or -1
Find(s, sep, start) ==
    Least({k \in start..(Len(s) - Len(sep)) : Slice(s, k, k + Len(sep)) = sep},
          -1)

\* str.split(sep) for a non-empty separator
RECURSIVE Split(_, _)
Split(s, sep) ==
    LET k == Find(s, sep, 0)
    IN IF k < 0 THEN <<s>>
       ELSE <<Slice(s, 0, k)>> \o Split(From(s, k + Len(sep)), sep)

\* s without the characters of chars at its two ends
RECURSIVE StripOf(_, _)
StripOf(s, chars) ==
    IF Len(s) > 0 /\ At(s, 0) \in chars THEN StripOf(From(s, 1), chars)
    ELSE IF Len(s) > 0 /\ At(s, Len(s) - 1) \in chars
         THEN StripOf(Slice(s, 0, Len(s) - 1), chars)
    ELSE s

\* str.strip()
Strip(s) == StripOf(s, Whitespace)

\* sep.join(parts)
RECURSIVE Join(_, _)
Join(sep, parts) ==
    IF parts = <<>> THEN ""
    ELSE IF Len(parts) = 1 THEN parts[1]
    ELSE parts[1] \o sep \o Join(sep, Tail(parts))

DigitValue(c) ==
    CASE c = "0" -> 0 [] c = "1" -> 1 [] c = "2" -> 2 [] c = "3" -> 3
      [] c = "4" -> 4 [] c = "5" -> 5 [] c = "6" -> 6 [] c = "7" -> 7
      [] c = "8" -> 8 [] c = "9" -> 9

\* the value of a run of decimal digits and underscores, most significant first
RECURSIVE DigitsValue(_, _)
DigitsValue(s, acc) ==
    IF s = "" THEN acc
    ELSE IF At(s, 0) = "_" THEN DigitsValue(From(s, 1), acc)
    ELSE DigitsValue(From(s, 1), 10 * acc + DigitValue(At(s, 0)))

\* digits, with single underscores allowed between them
RECURSIVE IsDigitRun(_, _)
IsDigitRun(s, afterDigit) ==
    IF s = "" THEN afterDigit
    ELSE IF At(s, 0) \in Digits THEN IsDigitRun(From(s, 1), TRUE)
    ELSE IF At(s, 0) = "_" THEN afterDigit /\ IsDigitRun(From(s, 1), FALSE)
    ELSE FALSE

\* whether the builtin int(s) accepts s: whitespace, an optional sign, digits
IsIntLiteral(s) ==
    LET t == StripOf(s, IntWhitespace)
        u == IF t # "" /\ At(t, 0) \in {"+", "-"} THEN From(t, 1) ELSE t
    IN u # "" /\ IsDigitRun(u, FALSE)

\* the builtin int(s) on a string it accepts
IntOf(s) ==
    LET t == StripOf(s, IntWhitespace)
    IN IF At(t, 0) = "-" THEN 0 - DigitsValue(From(t, 1), 0)
       ELSE IF At(t, 0) = "+" THEN DigitsValue(From(t, 1), 0)
       ELSE DigitsValue(t, 0)

-----------------------------------------------------------------------------
(* SyncMode and TypeInfo.                                                  *)

CONCURRENT == "concurrent"

SEQUENTIAL == "sequential"

\* the absent Optional value
None == "None"

SyncModes == {CONCURRENT, SEQUENTIAL}

\* context['current_function']: None, or the Function object, which is the
\* one context['functions'] holds under its name.  The two are of different
\* lengths, so that no name of a function reads as None.
NoFunction == <<>>

FunctionRef(name) == <<name>>

TypeInfo(base_type, width, sync_mode) ==
    [raised |-> "", base_type |-> base_type, width |-> width,
     sync_mode |-> sync_mode]

\* a call that raised instead of returning
Raise(what) == [raised |-> what]

\* the width given to a type string that names none
DefaultWidth == 32

\* TypeInfo.parse without its sync-mode suffix: the mode is always dropped
TypeInfo_parse_NoMode(type_str) ==
    LET parts == Split(type_str, "::")
        type_part == parts[1]
        dot == Split(type_part, ".")
    IN IF Len(dot) > 1
       THEN IF Len(dot) # 2 \/ ~IsIntLiteral(dot[2]) THEN Raise("ValueError")
            ELSE TypeInfo(dot[1], IntOf(dot[2]), None)
       ELSE TypeInfo(type_part, DefaultWidth, None)

\* TypeInfo.parse: 'base[.width][::mode]' -> TypeInfo, or ValueError
TypeInfo_parse(type_str) ==
    LET parts == Split(type_str, "::")
        type_part == parts[1]
        dot == Split(type_part, ".")
    IN IF Len(parts) > 1 /\ parts[2] \notin SyncModes THEN Raise("ValueError")
       ELSE LET sync_mode == IF Len(parts) > 1 THEN parts[2] ELSE None
            IN IF Len(dot) > 1
               THEN IF Len(dot) # 2 \/ ~IsIntLiteral(dot[2])
                    THEN Raise("ValueError")
                    ELSE TypeInfo(dot[1], IntOf(dot[2]), sync_mode)
               ELSE TypeInfo(type_part, DefaultWidth, sync_mode)

\* the return_type of a function declared without one
NoReturnType == [none |-> TRUE]

Variable(name, ti) == [name |-> name, type_info |-> ti]

Function(name, parameters, return_type, statements, default_sync_mode) ==
    [name |-> name, parameters |-> parameters, return_type |-> return_type,
     statements |-> statements, default_sync_mode |-> default_sync_mode]

\* self.rules, as registered by PseudoCToVerilog.__init__: a rule is modelled
\* by the name of its class
default_rules ==
    <<"VariableDeclarationRule", "FunctionDeclarationRule", "AssignmentRule">>

\* the flags of the pending calls after context['sequential_calls'].append:
\* a call just appended holds context['functions'][func_name] itself
Held(live, calls) == live \o [k \in 1..(Len(calls) - Len(live)) |-> TRUE]

\* the context dictionary and the rules built by the constructors
EmptyContext ==
    /\ variables = <<>>
    /\ functions = <<>>
    /\ sequential_calls = <<>>
    /\ live_calls = <<>>
    /\ rules = default_rules
    /\ call_counter = 0
    /\ current_function = NoFunction
    /\ in_always_block = FALSE

-----------------------------------------------------------------------------
(* TypeInfo.parse on formatted type strings.                               *)

\* largest width formatted into a type string
MaxWidth == 12

Bases == {"int", "signed", "unsigned"}

\* the shapes of type string: well formed and not; the last one has a
\* vertical tab before the width, which int() strips
Forms == {"base.w::m", "base.w", "base::m", "base",
          "base.", "base::", "base.w.w", "base.w::fast", "base.<VT>w"}

\* the type string of the given shape
Format(f) ==
    LET w == ToString(f.width)
    IN CASE f.form = "base.w::m" -> f.base \o "." \o w \o "::" \o f.mode
         [] f.form = "base.w" -> f.base \o "." \o w
         [] f.form = "base::m" -> f.base \o "::" \o f.mode
         [] f.form = "base" -> f.base
         [] f.form = "base." -> f.base \o "."
         [] f.form = "base::" -> f.base \o "::"
         [] f.form = "base.w.w" -> f.base \o "." \o w \o "." \o w
         [] f.form = "base.w::fast" -> f.base \o "." \o w \o "::fast"
         [] f.form = "base.<VT>w" -> f.base \o "." \o w

InitType ==
    /\ EmptyContext
    /\ input \in [base : Bases, width : 0..MaxWidth, mode : SyncModes,
                  form : Forms]
    /\ type_info = Raise("not called")
    /\ result = ""
    /\ Idle
    /\ pc = "start"

\* one call of TypeInfo.parse on the formatted string
ParseType ==
    /\ pc = "start"
    /\ type_info' = TypeInfo_parse(Format(input))
    /\ pc' = "parsed"
    /\ UNCHANGED <<variables, functions, sequential_calls, live_calls, rules,
                   call_counter,
                   current_function,
                   in_always_block, input, result, pipeline>>

SpecType == InitType /\ [][ParseType]_vars

\* C9: TypeInfo.parse returns the base, the width and the mode that were
\* formatted into 'base.w::m', 'base.w', 'base::m' and 'base'; an omitted
\* width is 32 and an omitted mode is None.
C9_ParseRoundTrip ==
    pc = "parsed" =>
        /\ input.form = "base.w::m" =>
               type_info = TypeInfo(input.base, input.width, input.mode)
        /\ input.form = "base.w" =>
               type_info = TypeInfo(input.base, input.width, None)
        /\ input.form = "base::m" =>
               type_info = TypeInfo(input.base, 32, input.mode)
        /\ input.form = "base" => type_info = TypeInfo(input.base, 32, None)

\* a two-digit width and a mode were formatted and parsed back
C9_Witness ==
    /\ pc = "parsed"
    /\ input.form = "base.w::m"
    /\ input.width = 12
    /\ input.mode = SEQUENTIAL
    /\ type_info.raised = ""
    /\ type_info.width = 12
    /\ type_info.sync_mode = SEQUENTIAL

-----------------------------------------------------------------------------
(* Dictionaries keep insertion order: a sequence of records keyed by name.  *)

HasKey(d, k) == \E j \in 1..Len(d) : d[j].name = k

Lookup(d, k) == d[CHOOSE j \in 1..Len(d) : d[j].name = k]

\* a dictionary in which the first value stored under a key stays
DictSet_KeepFirst(d, v) ==
    IF HasKey(d, v.name) THEN d ELSE Append(d, v)

\* a dictionary in which a key stored again moves to the end
DictSet_MoveToEnd(d, v) ==
    Append(SelectSeq(d, LAMBDA x : x.name # v.name), v)

\* d[v.name] = v: an existing key keeps its place
DictSet(d, v) ==
    IF HasKey(d, v.name)
    THEN [d EXCEPT ![CHOOSE j \in 1..Len(d) : d[j].name = v.name] = v]
    ELSE Append(d, v)

-----------------------------------------------------------------------------
(* The call resolver of AssignmentRule (src/main.py).                       *)

\* list.index(x): the 0-based place of the first element equal to x
ListIndex(l, x) == (CHOOSE j \in 1..Len(l) :
                        l[j] = x /\ \A k \in 1..(j - 1) : l[k] # x) - 1

\* args.split(',') if args else []
arg_parts(args) == IF args = "" THEN <<>> ELSE Split(args, ",")

\* has_sequential with the comparison off by one: a parameter one past the
\* last argument counts too
has_sequential_OffByOne(func, args) ==
    \E j \in 1..Len(func.parameters) :
        /\ Len(arg_parts(args)) >= ListIndex(func.parameters, func.parameters[j])
        /\ func.parameters[j].type_info.sync_mode = SEQUENTIAL

\* any(param is SEQUENTIAL for param in parameters
\*     if len(arg_parts) > parameters.index(param))
has_sequential(func, args) ==
    \E j \in 1..Len(func.parameters) :
        /\ Len(arg_parts(args)) > ListIndex(func.parameters, func.parameters[j])
        /\ func.parameters[j].type_info.sync_mode = SEQUENTIAL

effective_sync_mode(func, args) ==
    IF has_sequential(func, args) THEN SEQUENTIAL ELSE func.default_sync_mode

\* a pending instance: the tuple (func, instance_name, args)
PendingCall(func, instance_name, args) ==
    [func |-> func, instance_name |-> instance_name, args |-> args]

\* the call resolver with the concurrent branch recording an instance too
generate_function_call_Record(func, args, calls, counter) ==
    LET instance_name == func.name \o "_inst_" \o ToString(counter)
    IN IF effective_sync_mode(func, args) = CONCURRENT
       THEN [text |-> func.name \o "(" \o args \o ")",
             calls |-> Append(calls, PendingCall(func, instance_name, args))]
       ELSE [text |-> instance_name \o "_result",
             calls |-> Append(calls, PendingCall(func, instance_name, args))]

\* _generate_function_call: the replacement text and the pending list after
\* it; context['call_counter'] is read and never written
generate_function_call(func, args, calls, counter) ==
    LET instance_name == func.name \o "_inst_" \o ToString(counter)
    IN IF effective_sync_mode(func, args) = CONCURRENT
       THEN [text |-> func.name \o "(" \o args \o ")", calls |-> calls]
       ELSE [text |-> instance_name \o "_result",
             calls |-> Append(calls, PendingCall(func, instance_name, args))]

\* replace_func_call: a known function is resolved, any other match is kept
replace_func_call(func_name, args, matched, fns, calls, counter) ==
    IF HasKey(fns, func_name)
    THEN generate_function_call(Lookup(fns, func_name), args, calls, counter)
    ELSE [text |-> matched, calls |-> calls]

\* the end of the run of \w characters that starts at p
RECURSIVE WordEnd(_, _)
WordEnd(s, p) ==
    IF p < Len(s) /\ IsWord(At(s, p)) THEN WordEnd(s, p + 1) ELSE p

\* (.*)\) in place of (.*?)\): a greedy match that ends at the last ')'
RECURSIVE FindClose_Greedy(_, _)
FindClose_Greedy(s, k) ==
    IF k >= Len(s) THEN -1
    ELSE LET later == FindClose_Greedy(s, k + 1)
         IN IF later >= 0 THEN later
            ELSE IF At(s, k) = ")" THEN k
            ELSE -1

\* the lazy (.*?)\) from k: the place of the first ')' with no line break
\* before it, or -1
RECURSIVE FindClose(_, _)
FindClose(s, k) ==
    IF k >= Len(s) THEN -1
    ELSE IF At(s, k) = ")" THEN k
    ELSE IF At(s, k) = "\n" THEN -1
    ELSE FindClose(s, k + 1)

\* whether (\w+)\((.*?)\) matches at p, where q is the end of the run of \w
\* characters from p: a shorter run is followed by a \w character, not by '('
CallMatchAt(s, p, q) ==
    /\ q > p
    /\ q < Len(s)
    /\ At(s, q) = "("
    /\ FindClose(s, q + 1) >= 0

\* the leftmost place at or after pos where the call pattern matches, or -1;
\* when it does not match at the start of a run of \w characters it does not
\* match within the run either, whose end is the same
RECURSIVE NextCallMatch(_, _)
NextCallMatch(s, pos) ==
    IF pos >= Len(s) THEN -1
    ELSE LET q == WordEnd(s, pos)
         IN IF CallMatchAt(s, pos, q) THEN pos
            ELSE NextCallMatch(s, IF q > pos THEN q ELSE pos + 1)

\* re.sub(func_call_pattern, replace_func_call, expr) from pos on
RECURSIVE sub_func_calls(_, _, _, _, _)
sub_func_calls(expr, pos, fns, calls, counter) ==
    LET p == NextCallMatch(expr, pos)
    IN IF p < 0 THEN [text |-> From(expr, pos), calls |-> calls]
       ELSE LET q == WordEnd(expr, p)
                close == FindClose(expr, q + 1)
                r == replace_func_call(Slice(expr, p, q),
                                       Slice(expr, q + 1, close),
                                       Slice(expr, p, close + 1),
                                       fns, calls, counter)
                rest == sub_func_calls(expr, close + 1, fns, r.calls, counter)
            IN [text |-> Slice(expr, pos, p) \o r.text \o rest.text,
                calls |-> rest.calls]

\* _convert_expression
convert_expression(expr, fns, calls, counter) ==
    sub_func_calls(expr, 0, fns, calls, counter)

-----------------------------------------------------------------------------
(* One call resolved against one declared function.                        *)

\* most parameters of the declared function
MaxParams == 3

\* most arguments of the call
MaxArgs == 3

\* the parameters a declaration is drawn from: no mode, sequential, concurrent
ParamPool == {Variable("x", TypeInfo_parse("int.8")),
              Variable("y", TypeInfo_parse("int.8::sequential")),
              Variable("z", TypeInfo_parse("int.8::concurrent"))}

SeqsUpTo(S, n) == UNION {[1..k -> S] : k \in 0..n}

\* the raw argument text of a call with n arguments: 'a1, a2, ...'
ArgText(n) == Join(", ", [k \in 1..n |-> "a" \o ToString(k)])

\* the text of the call that is resolved
CallText(in) == "f(" \o ArgText(in.nargs) \o ")"

InitSync ==
    /\ input \in [params : SeqsUpTo(ParamPool, MaxParams),
                  default : SyncModes, nargs : 0..MaxArgs]
    /\ variables = <<>>
    /\ functions = <<Function("f", input.params, TypeInfo_parse("int.8"),
                              <<>>, input.default)>>
    /\ sequential_calls = <<>>
    /\ live_calls = <<>>
    /\ rules = default_rules
    /\ call_counter = 0
    /\ current_function = FunctionRef("f")
    /\ in_always_block = FALSE
    /\ type_info = Raise("not called")
    /\ result = ""
    /\ Idle
    /\ pc = "declared"

\* _convert_expression on the text of the one call
ResolveCall ==
    /\ pc = "declared"
    /\ LET r == convert_expression(CallText(input), functions,
                                   sequential_calls, call_counter)
       IN /\ result' = r.text
          /\ sequential_calls' = r.calls
          /\ live_calls' = Held(live_calls, r.calls)
    /\ pc' = "resolved"
    /\ UNCHANGED <<variables, functions, rules, call_counter,
                   current_function, in_always_block,
                   input, type_info, pipeline>>

SpecSync == InitSync /\ [][ResolveCall]_vars

\* some parameter below both the parameter count and the argument count is
\* declared sequential
SeqParamReached(in) ==
    \E j \in 1..Len(in.params) :
        j <= in.nargs /\ in.params[j].type_info.sync_mode = SEQUENTIAL

ResolvedSequential ==
    /\ Len(sequential_calls) = 1
    /\ result = sequential_calls[1].instance_name \o "_result"

ResolvedConcurrent ==
    /\ sequential_calls = <<>>
    /\ result = CallText(input)

\* C2: a call is resolved as SEQUENTIAL exactly when a parameter at a place
\* below the parameter count and the argument count is sequential or the
\* function's default mode is SEQUENTIAL, equal parameters included.
C2_SequentialIff ==
    pc = "resolved" =>
        /\ ResolvedSequential \/ ResolvedConcurrent
        /\ ResolvedSequential <=>
               (SeqParamReached(input) \/ input.default = SEQUENTIAL)

\* a concurrent function whose sequential parameter is declared twice, both
\* past the one argument of the call: the call stays concurrent
C2_Witness ==
    /\ pc = "resolved"
    /\ input.default = CONCURRENT
    /\ Len(input.params) = 3
    /\ input.params[1].type_info.sync_mode = None
    /\ input.params[2] = input.params[3]
    /\ input.params[2].type_info.sync_mode = SEQUENTIAL
    /\ input.nargs = 1
    /\ ResolvedConcurrent

\* C4: a call to a function whose default mode is CONCURRENT, with no
\* sequential parameter below the argument count, comes back as the same
\* text and leaves the pending list and the call counter as they were.
C4_ConcurrentUnchanged ==
    (/\ pc = "resolved"
     /\ input.default = CONCURRENT
     /\ ~SeqParamReached(input)) =>
        /\ result = "f(" \o ArgText(input.nargs) \o ")"
        /\ sequential_calls = <<>>
        /\ call_counter = 0

\* a concurrent call whose sequential parameter lies past the arguments
C4_Witness ==
    /\ pc = "resolved"
    /\ input.default = CONCURRENT
    /\ input.nargs = 1
    /\ Len(input.params) = 2
    /\ input.params[2].type_info.sync_mode = SEQUENTIAL
    /\ result = "f(a1)"
    /\ sequential_calls = <<>>

-----------------------------------------------------------------------------
(* Expressions resolved one after another within one compilation.          *)

\* most calls written in the expressions of one compilation
MaxCalls == 3

\* the functions of the example program of src/main.py, and a concurrent one
ExampleFunctions ==
    <<Function("add",
               <<Variable("x", TypeInfo_parse("int.32")),
                 Variable("y", TypeInfo_parse("int.32::sequential"))>>,
               TypeInfo_parse("int.32"), <<>>, CONCURRENT),
      Function("multiply",
               <<Variable("x", TypeInfo_parse("int.8")),
                 Variable("y", TypeInfo_parse("int.8"))>>,
               TypeInfo_parse("signed.8"), <<>>, SEQUENTIAL),
      Function("neg", <<Variable("x", TypeInfo_parse("int.8"))>>,
               TypeInfo_parse("int.8"), <<>>, CONCURRENT)>>

\* the calls an expression is made of; h is not a declared function
Atoms == {[name |-> "add", args |-> "b"],
          [name |-> "add", args |-> "b, counter"],
          [name |-> "multiply", args |-> "3, 4"],
          [name |-> "neg", args |-> "b"],
          [name |-> "h", args |-> "b"]}

ItemText(item) == item.name \o "(" \o item.args \o ")"

\* the calls written left to right, added together
Render(items) == Join(" + ", [k \in 1..Len(items) |-> ItemText(items[k])])

InitResolve ==
    /\ variables = <<>>
    /\ functions = ExampleFunctions
    /\ sequential_calls = <<>>
    /\ live_calls = <<>>
    /\ rules = default_rules
    /\ call_counter = 0
    /\ current_function =
           FunctionRef(ExampleFunctions[Len(ExampleFunctions)].name)
    /\ in_always_block = FALSE
    /\ input = [items |-> <<>>, before |-> <<>>, written |-> 0]
    /\ type_info = Raise("not called")
    /\ result = ""
    /\ Idle
    /\ pc = "resolving"

\* one call of _convert_expression, on the next expression of the source
ConvertExpression ==
    /\ pc = "resolving"
    /\ \E items \in SeqsUpTo(Atoms, MaxCalls - input.written) :
          /\ items # <<>>
          /\ LET r == convert_expression(Render(items), functions,
                                         sequential_calls, call_counter)
             IN /\ result' = r.text
                /\ sequential_calls' = r.calls
                /\ live_calls' = Held(live_calls, r.calls)
          /\ input' = [items |-> items, before |-> sequential_calls,
                       written |-> input.written + Len(items)]
    /\ UNCHANGED <<variables, functions, rules, call_counter,
                   current_function, in_always_block,
                   type_info, pipeline, pc>>

SpecResolve == InitResolve /\ [][ConvertExpression]_vars

\* C1: the instance names in the pending list are pairwise distinct, the
\* k-th sequential resolution minting '<F.name>_inst_<k>'.
C1_DistinctInstanceNames ==
    \A j, k \in 1..Len(sequential_calls) :
        /\ j # k => sequential_calls[j].instance_name
                        # sequential_calls[k].instance_name
        /\ sequential_calls[k].instance_name
               = sequential_calls[k].func.name \o "_inst_" \o ToString(k - 1)

\* whether the call is one to a declared function that resolves sequentially
IsSequentialItem(item) ==
    /\ HasKey(functions, item.name)
    /\ effective_sync_mode(Lookup(functions, item.name), item.args) = SEQUENTIAL

\* the sequential calls among the items, left to right
RECURSIVE SequentialItems(_)
SequentialItems(items) ==
    IF items = <<>> THEN <<>>
    ELSE IF IsSequentialItem(Head(items))
         THEN <<Head(items)>> \o SequentialItems(Tail(items))
    ELSE SequentialItems(Tail(items))

\* the text expected of the items when the sequential ones among them were
\* given the records recs, left to right
RECURSIVE ExpectedTexts(_, _)
ExpectedTexts(items, recs) ==
    IF items = <<>> THEN <<>>
    ELSE IF IsSequentialItem(Head(items))
         THEN <<Head(recs).instance_name \o "_result">>
                  \o ExpectedTexts(Tail(items), Tail(recs))
    ELSE <<ItemText(Head(items))>> \o ExpectedTexts(Tail(items), recs)

\* the records the last call of _convert_expression appended
Appended == SubSeq(sequential_calls, Len(input.before) + 1,
                   Len(sequential_calls))

\* C3: an expression with k sequential calls appends exactly k records, in
\* the left-to-right order of the calls, each with the callee and the raw
\* argument text, and each call is replaced by '<instance_name>_result' of
\* its own record; other calls are kept and add nothing.
C3_RecordsInTextOrder ==
    LET seq == SequentialItems(input.items)
    IN /\ sequential_calls = input.before \o Appended
       /\ Len(Appended) = Len(seq)
       /\ \A k \in 1..Len(seq) :
              /\ Appended[k].func = Lookup(functions, seq[k].name)
              /\ Appended[k].args = seq[k].args
       /\ Len(Appended) = Len(seq) =>
              result = Join(" + ", ExpectedTexts(input.items, Appended))

\* two sequential calls to different functions around nothing else, resolved
\* after an earlier expression left a record
C3_Witness ==
    /\ Len(input.before) = 1
    /\ Len(input.items) = 2
    /\ input.items[1].name = "multiply"
    /\ input.items[2].name = "add"
    /\ Len(sequential_calls) = 3
    /\ sequential_calls[2].func.name = "multiply"
    /\ sequential_calls[3].func.name = "add"
    /\ sequential_calls[3].args = "b, counter"

-----------------------------------------------------------------------------
(* The lexer of the token pipeline (src/adHocRegex.py).                    *)

Token(type, value, line, column) ==
    [type |-> type, value |-> value, line |-> line, column |-> column]

type_prefixes == {"int", "signed", "unsigned"}

keywords == <<"function", "if", "else", "for", "while", "return">>

OperatorChars == {"=", "+", "-", "*", "/", "&", "|", "^", "<", ">"}

TwoCharOperators == {"<=", ">=", "==", "!="}

\* a delimiter set that leaves the comma out
DelimiterChars_NoComma == {"{", "}", "(", ")", ";"}

DelimiterChars == {"{", "}", "(", ")", ";", ","}

\* _check_type_declaration
check_type_declaration(line, col_idx) ==
    \E prefix \in type_prefixes :
        /\ StartsWith(From(line, col_idx), prefix)
        /\ LET next_idx == col_idx + Len(prefix)
           IN \/ next_idx >= Len(line)
              \/ isspace(At(line, next_idx))
              \/ At(line, next_idx) \in {".", ":"}

\* _extract_type: the index after the type token
RECURSIVE extract_type(_, _)
extract_type(line, col_idx) ==
    IF /\ col_idx < Len(line)
       /\ ~isspace(At(line, col_idx))
       /\ At(line, col_idx) \notin {";", ",", "(", ")", "{", "}"}
    THEN extract_type(line, col_idx + 1)
    ELSE col_idx

\* whether the k-th keyword stands at col_idx as a complete token
KeywordAt(line, col_idx, k) ==
    /\ StartsWith(From(line, col_idx), keywords[k])
    /\ LET next_idx == col_idx + Len(keywords[k])
       IN \/ next_idx >= Len(line)
          \/ isspace(At(line, next_idx))
          \/ At(line, next_idx) \in {"(", "{", ";", ":"}

\* _check_keyword: the first keyword of the list that matches, or ""
check_keyword(line, col_idx) ==
    IF \E k \in 1..Len(keywords) : KeywordAt(line, col_idx, k)
    THEN keywords[CHOOSE k \in 1..Len(keywords) :
                      /\ KeywordAt(line, col_idx, k)
                      /\ \A m \in 1..(k - 1) : ~KeywordAt(line, col_idx, m)]
    ELSE ""

\* _extract_identifier: the index after the identifier
RECURSIVE extract_identifier(_, _)
extract_identifier(line, col_idx) ==
    IF /\ col_idx < Len(line)
       /\ (isalnum(At(line, col_idx)) \/ At(line, col_idx) = "_")
    THEN extract_identifier(line, col_idx + 1)
    ELSE col_idx

\* _extract_number: the index after the digits
RECURSIVE extract_number(_, _)
extract_number(line, col_idx) ==
    IF col_idx < Len(line) /\ isdigit(At(line, col_idx))
    THEN extract_number(line, col_idx + 1)
    ELSE col_idx

\* the operator token at col_idx: its text
operator_at(line, col_idx) ==
    IF /\ col_idx + 1 < Len(line)
       /\ Slice(line, col_idx, col_idx + 2) \in TwoCharOperators
    THEN Slice(line, col_idx, col_idx + 2)
    ELSE At(line, col_idx)

\* the inner loop of tokenize: the tokens of one line from col_idx on
RECURSIVE tokenize_line(_, _, _)
tokenize_line(line, line_idx, col_idx) ==
    IF col_idx >= Len(line) THEN <<>>
    ELSE LET c == At(line, col_idx)
         IN IF isspace(c) THEN tokenize_line(line, line_idx, col_idx + 1)
            ELSE IF check_type_declaration(line, col_idx)
            THEN LET new_idx == extract_type(line, col_idx)
                 IN <<Token("TYPE", Slice(line, col_idx, new_idx),
                            line_idx, col_idx)>>
                    \o tokenize_line(line, line_idx, new_idx)
            ELSE IF check_keyword(line, col_idx) # ""
            THEN LET keyword == check_keyword(line, col_idx)
                 IN <<Token("KEYWORD", keyword, line_idx, col_idx)>>
                    \o tokenize_line(line, line_idx, col_idx + Len(keyword))
            ELSE IF isalpha(c) \/ c = "_"
            THEN LET new_idx == extract_identifier(line, col_idx)
                 IN <<Token("IDENTIFIER", Slice(line, col_idx, new_idx),
                            line_idx, col_idx)>>
                    \o tokenize_line(line, line_idx, new_idx)
            ELSE IF c \in OperatorChars
            THEN LET op == operator_at(line, col_idx)
                 IN <<Token("OPERATOR", op, line_idx, col_idx)>>
                    \o tokenize_line(line, line_idx, col_idx + Len(op))
            ELSE IF c \in DelimiterChars
            THEN <<Token("DELIMITER", c, line_idx, col_idx)>>
                 \o tokenize_line(line, line_idx, col_idx + 1)
            ELSE IF isdigit(c)
            THEN LET new_idx == extract_number(line, col_idx)
                 IN <<Token("NUMBER", Slice(line, col_idx, new_idx),
                            line_idx, col_idx)>>
                    \o tokenize_line(line, line_idx, new_idx)
            ELSE tokenize_line(line, line_idx, col_idx + 1)

\* the outer loop of tokenize, from the line of 0-based index line_idx on
RECURSIVE tokenize_from(_, _)
tokenize_from(lines, line_idx) ==
    IF line_idx >= Len(lines) THEN <<>>
    ELSE IF Strip(lines[line_idx + 1]) = ""
         THEN tokenize_from(lines, line_idx + 1)
    ELSE tokenize_line(lines[line_idx + 1], line_idx, 0)
         \o tokenize_from(lines, line_idx + 1)

\* Parser.tokenize
tokenize(lines) == tokenize_from(lines, 0)

-----------------------------------------------------------------------------
(* The AST builder of the token pipeline (src/adHocRegex.py).              *)

\* tokens[k] for a 0-based Python index k
Tok(toks, k) == toks[k + 1]

\* k < len(tokens) and tokens[k] is the delimiter v
IsDelimiter(toks, k, v) ==
    /\ k < Len(toks)
    /\ Tok(toks, k).type = "DELIMITER"
    /\ Tok(toks, k).value = v

\* tokens[k] is an identifier followed by the operator '='
IsAssignment(toks, k) ==
    /\ Tok(toks, k).type = "IDENTIFIER"
    /\ k + 1 < Len(toks)
    /\ Tok(toks, k + 1).type = "OPERATOR"
    /\ Tok(toks, k + 1).value = "="

\* the tokens _tokens_to_expression keeps: `token.value in "()"` is the
\* substring test of Python, true of "(", ")", "()" and ""
IsExpressionToken(t) ==
    \/ t.type \in {"IDENTIFIER", "OPERATOR", "NUMBER"}
    \/ t.type = "DELIMITER" /\ Find("()", t.value, 0) >= 0

\* _tokens_to_expression
tokens_to_expression(toks) ==
    LET kept == SelectSeq(toks, IsExpressionToken)
    IN Join(" ", [k \in 1..Len(kept) |-> kept[k].value])

\* a parameter loop that insists on a name after every parameter type
RECURSIVE parse_parameters_Strict(_, _, _)
parse_parameters_Strict(toks, k, parameters) ==
    IF k < Len(toks) /\ ~IsDelimiter(toks, k, ")")
    THEN IF Tok(toks, k).type = "TYPE"
         THEN LET param_type == TypeInfo_parse(Tok(toks, k).value)
                  named == /\ k + 1 < Len(toks)
                           /\ Tok(toks, k + 1).type = "IDENTIFIER"
                  k3 == IF IsDelimiter(toks, k + 2, ",") THEN k + 3 ELSE k + 2
              IN IF param_type.raised # "" THEN Raise(param_type.raised)
                 ELSE IF ~named THEN Raise("Expected parameter name")
                 ELSE parse_parameters_Strict(toks, k3,
                          Append(parameters,
                                 Variable(Tok(toks, k + 1).value, param_type)))
         ELSE parse_parameters_Strict(toks, k + 1, parameters)
    ELSE [raised |-> "", i |-> k, parameters |-> parameters]

\* the parameter loop of _parse_function from k on
RECURSIVE parse_parameters(_, _, _)
parse_parameters(toks, k, parameters) ==
    IF k < Len(toks) /\ ~IsDelimiter(toks, k, ")")
    THEN IF Tok(toks, k).type = "TYPE"
         THEN LET param_type == TypeInfo_parse(Tok(toks, k).value)
                  named == /\ k + 1 < Len(toks)
                           /\ Tok(toks, k + 1).type = "IDENTIFIER"
                  k2 == IF named THEN k + 2 ELSE k + 1
                  k3 == IF IsDelimiter(toks, k2, ",") THEN k2 + 1 ELSE k2
              IN IF param_type.raised # "" THEN Raise(param_type.raised)
                 ELSE parse_parameters(toks, k3,
                          IF named
                          THEN Append(parameters,
                                      Variable(Tok(toks, k + 1).value,
                                               param_type))
                          ELSE parameters)
         ELSE parse_parameters(toks, k + 1, parameters)
    ELSE [raised |-> "", i |-> k, parameters |-> parameters]

\* the first index from k on of a token that is the delimiter ';', or
\* len(tokens)
RECURSIVE StatementEnd(_, _)
StatementEnd(toks, k) ==
    IF k < Len(toks) /\ ~IsDelimiter(toks, k, ";")
    THEN StatementEnd(toks, k + 1)
    ELSE k

\* the body loop of _parse_function from k on
RECURSIVE parse_body(_, _, _)
parse_body(toks, k, statements) ==
    IF k < Len(toks) /\ ~IsDelimiter(toks, k, "}")
    THEN IF IsAssignment(toks, k)
         THEN LET end == StatementEnd(toks, k + 2)
                  expr == tokens_to_expression(SubSeq(toks, k + 3, end))
              IN parse_body(toks, end + 1,
                            Append(statements,
                                   <<"assignment", Tok(toks, k).value, expr>>))
         ELSE parse_body(toks, k + 1, statements)
    ELSE [i |-> k, statements |-> statements]

\* _parse_function returns: the cursor after the body and the Function
function_parsed(name, parameters, return_type, sync_mode, body, k) ==
    [raised |-> "", i |-> k,
     function |-> Function(name, parameters, return_type, body, sync_mode)]

\* _parse_function after the body loop: the closing brace is skipped
function_body_parsed(name, parameters, return_type, sync_mode, body) ==
    function_parsed(name, parameters, return_type, sync_mode,
                    body.statements, body.i + 1)

\* _parse_function from the function body on, with the cursor at k
parse_function_body(toks, k, name, parameters, return_type, sync_mode) ==
    IF IsDelimiter(toks, k, "{")
    THEN function_body_parsed(name, parameters, return_type, sync_mode,
                              parse_body(toks, k + 1, <<>>))
    ELSE function_parsed(name, parameters, return_type, sync_mode, <<>>, k)

\* _parse_function after the parameter loop: the closing parenthesis is
\* skipped
function_parameters_parsed(toks, name, return_type, sync_mode, params) ==
    IF params.raised # "" THEN Raise("ValueError")
    ELSE parse_function_body(toks, params.i + 1, name, params.parameters,
                             return_type, sync_mode)

\* _parse_function from the parameter list on, with the cursor at k
parse_function_parameters(toks, k, name, return_type, sync_mode) ==
    IF IsDelimiter(toks, k, "(")
    THEN function_parameters_parsed(toks, name, return_type, sync_mode,
                                    parse_parameters(toks, k + 1, <<>>))
    ELSE parse_function_body(toks, k, name, <<>>, return_type, sync_mode)

\* _parse_function from the function name on, with the cursor at k
parse_function_name(toks, k, return_type, sync_mode) ==
    IF return_type # NoReturnType /\ return_type.raised # ""
    THEN Raise("ValueError")
    ELSE IF k < Len(toks) /\ Tok(toks, k).type = "IDENTIFIER"
    THEN parse_function_parameters(toks, k + 1, Tok(toks, k).value,
                                   return_type, sync_mode)
    ELSE Raise("ValueError: Expected function name")

\* _parse_function from the return type on, with the cursor at k
parse_function_type(toks, k, sync_mode) ==
    IF k < Len(toks) /\ Tok(toks, k).type = "TYPE"
    THEN parse_function_name(toks, k + 1, TypeInfo_parse(Tok(toks, k).value),
                             sync_mode)
    ELSE parse_function_name(toks, k, NoReturnType, sync_mode)

\* _parse_function: the cursor after the function and the Function, or the
\* error raised
parse_function(toks, start_idx) ==
    IF /\ start_idx + 2 < Len(toks)
       /\ Tok(toks, start_idx + 1).type = "DELIMITER"
       /\ Tok(toks, start_idx + 1).value = "::"
       /\ Tok(toks, start_idx + 2).type = "IDENTIFIER"
    THEN IF Tok(toks, start_idx + 2).value \notin SyncModes
         THEN Raise("ValueError")
         ELSE parse_function_type(toks, start_idx + 3,
                                  Tok(toks, start_idx + 2).value)
    ELSE parse_function_type(toks, start_idx + 1, CONCURRENT)

\* an expression loop that leaves the cursor where the assignment starts
ExpressionEnd_NoAdvance(toks, k) == k - 3

\* the first index from k on of a DELIMITER token, or len(tokens)
RECURSIVE ExpressionEnd(_, _)
ExpressionEnd(toks, k) ==
    IF k < Len(toks) /\ Tok(toks, k).type # "DELIMITER"
    THEN ExpressionEnd(toks, k + 1)
    ELSE k

\* the tree of a parser that keeps the tree of its last call
FreshAst_Stale == ast

\* the tree build_ast starts from
FreshAst == [variables |-> <<>>, functions |-> <<>>, statements |-> <<>>]

-----------------------------------------------------------------------------
(* The code generator of the token pipeline (src/adHocRegex.py).           *)

\* "signed " if base_type == "signed" else ""
signed_str(ti) == IF ti.base_type = "signed" THEN "signed " ELSE ""

\* [{width-1}:0]
range_str(ti) == "[" \o ToString(ti.width - 1) \o ":0]"

\* _generate_variable_declaration
generate_variable_declaration(var) ==
    "    reg " \o signed_str(var.type_info) \o range_str(var.type_info)
             \o " " \o var.name \o ";"

\* a conversion that replaces the name of a declared function by the result
\* net of an instance
parser_convert_expression_Resolve(expr) ==
    IF HasKey(functions, expr) THEN expr \o "_inst_0_result" ELSE expr

\* Parser._convert_expression
parser_convert_expression(expr) == expr

\* f"            {var_name} <= {converted_expr};" for each assignment
assignment_lines(statements) ==
    LET kept == SelectSeq(statements, LAMBDA st : st[1] = "assignment")
    IN [k \in 1..Len(kept) |->
           "            " \o kept[k][2] \o " <= "
               \o parser_convert_expression(kept[k][3]) \o ";"]

\* the ports of a function's module
ports(func) ==
    <<"input clk", "input rst">>
    \o [k \in 1..Len(func.parameters) |->
           "input " \o signed_str(func.parameters[k].type_info)
               \o range_str(func.parameters[k].type_info)
               \o " " \o func.parameters[k].name]
    \o (IF func.return_type # NoReturnType
        THEN <<"output reg " \o signed_str(func.return_type)
                   \o range_str(func.return_type) \o " result">>
        ELSE <<>>)

\* Parser._generate_function_module
generate_function_module(func) ==
    <<"module " \o func.name \o "(",
      "    " \o Join(",\n    ", ports(func)),
      ");",
      "",
      "    always @(posedge clk or posedge rst) begin",
      "        if (rst) begin">>
    \o (IF func.return_type # NoReturnType
        THEN <<"            result <= 0;">> ELSE <<>>)
    \o <<"        end else begin">>
    \o assignment_lines(func.statements)
    \o <<"        end", "    end", "", "endmodule", "">>

\* str.rstrip(',')
RECURSIVE rstrip_comma(_)
rstrip_comma(s) ==
    IF Len(s) > 0 /\ At(s, Len(s) - 1) = ","
    THEN rstrip_comma(Slice(s, 0, Len(s) - 1))
    ELSE s

\* _generate_sequential_instance
generate_sequential_instance(func, instance_name, args) ==
    LET arg_list == arg_parts(args)
        code == <<"    // Sequential function instance: " \o instance_name,
                  "    " \o func.name \o " " \o instance_name \o " (",
                  "        .clk(clk),",
                  "        .rst(rst),">>
                \o [k \in 1..Len(func.parameters) |->
                       "        ." \o func.parameters[k].name \o "("
                           \o (IF k - 1 < Len(arg_list)
                               THEN Strip(arg_list[k]) ELSE "0")
                           \o "),"]
                \o (IF func.return_type # NoReturnType
                    THEN <<"        .result(" \o instance_name \o "_result)">>
                    ELSE <<>>)
    IN [code EXCEPT ![Len(code)] = rstrip_comma(@)] \o <<"    );", "">>

\* the concatenation of the sequences of a sequence
RECURSIVE Flatten(_)
Flatten(ss) == IF ss = <<>> THEN <<>> ELSE Head(ss) \o Flatten(Tail(ss))

\* Parser.generate_verilog: the text for a tree and the pending instances
generate_verilog(tree, calls) ==
    Join("\n",
         <<"module main(", "    input clk,", "    input rst", ");", "">>
         \o [k \in 1..Len(tree.variables) |->
                generate_variable_declaration(tree.variables[k])]
         \o <<"",
              "    always @(posedge clk or posedge rst) begin",
              "        if (rst) begin">>
         \o [k \in 1..Len(tree.variables) |->
                "            " \o tree.variables[k].name \o " <= 0;"]
         \o <<"        end else begin">>
         \o assignment_lines(tree.statements)
         \o <<"        end", "    end", "">>
         \o Flatten([k \in 1..Len(tree.functions) |->
                        generate_function_module(tree.functions[k])])
         \o Flatten([k \in 1..Len(calls) |->
                        generate_sequential_instance(calls[k].func,
                                                     calls[k].instance_name,
                                                     calls[k].args)])
         \o <<"endmodule">>)

-----------------------------------------------------------------------------
(* Parser.parse_code, step by step.                                        *)

\* most lines of a source text
MaxLines == 2

\* variable declarations: the same name with two types
VarDecls == {[base |-> "int", width |-> 32, name |-> "a"],
             [base |-> "signed", width |-> 16, name |-> "a"]}

\* 'base.width name;'
DeclText(d) == d.base \o "." \o ToString(d.width) \o " " \o d.name \o ";"

\* function declarations with a mode suffix: the two of the example program
\* of src/adHocRegex.py, on one line, and the one of the specification
ModeDecls ==
    {[mode |-> SEQUENTIAL, type |-> "int.8", name |-> "inc",
      params |-> <<[type |-> "int.8", name |-> "x"]>>,
      body |-> "result = x + 1;"],
     [mode |-> CONCURRENT, type |-> "int.32", name |-> "add",
      params |-> <<[type |-> "int.32", name |-> "x"],
                   [type |-> "int.32::sequential", name |-> "y"]>>,
      body |-> "result = x + y;"]}

\* 'function::M T name(T1 p1, ...){ body }'
FunctionText(d) ==
    "function::" \o d.mode \o " " \o d.type \o " " \o d.name \o "("
        \o Join(", ", [k \in 1..Len(d.params) |->
                          d.params[k].type \o " " \o d.params[k].name])
        \o "){ " \o d.body \o " }"

\* the lines source texts are made of: declarations, functions with and
\* without a mode suffix, assignments, and malformed fragments
LinePool ==
    {DeclText(d) : d \in VarDecls}
    \cup {FunctionText(d) : d \in ModeDecls}
    \cup {"int b",
          "function signed.8 neg(signed.8 x){ result = 0 - x; }",
          "a = inc(a) + 1;",
          "function (int.8 x)",
          "function g(int.8, int.8 y",
          "int.x c;",
          "int::fast d;",
          "b = (a <= 3",
          "}"}

\* the source texts: up to MaxLines lines of the pool
Sources ==
    {Join("\n", ls) : ls \in UNION {[1..k -> LinePool] : k \in 1..MaxLines}}

InitParser ==
    /\ EmptyContext
    /\ input \in Sources
    /\ type_info = Raise("not called")
    /\ result = ""
    /\ Idle
    /\ pc = "parse_code"

\* lines = code.strip().split('\n'); tokens = self.tokenize(lines); build_ast
\* starts
Tokenize ==
    /\ pc = "parse_code"
    /\ tokens' = tokenize(Split(Strip(input), "\n"))
    /\ ast' = FreshAst
    /\ i' = 0
    /\ pc' = "build_ast"
    /\ UNCHANGED <<variables, functions, sequential_calls, live_calls, rules,
                   call_counter,
                   current_function,
                   in_always_block, input, type_info, result, verilog,
                   outputs>>

\* tokens[i] is a TYPE followed by an IDENTIFIER
AtVariableDeclaration ==
    /\ Tok(tokens, i).type = "TYPE"
    /\ i + 1 < Len(tokens)
    /\ Tok(tokens, i + 1).type = "IDENTIFIER"

\* tokens[i] is the keyword 'function'
AtFunctionDeclaration ==
    /\ Tok(tokens, i).type = "KEYWORD"
    /\ Tok(tokens, i).value = "function"

\* build_ast, one iteration: a variable declaration
DeclareVariable ==
    /\ pc = "build_ast"
    /\ i < Len(tokens)
    /\ AtVariableDeclaration
    /\ type_info' = TypeInfo_parse(Tok(tokens, i).value)
    /\ IF type_info'.raised # ""
       THEN /\ pc' = "raised"
            /\ UNCHANGED <<ast, variables, i>>
       ELSE /\ ast' = [ast EXCEPT !.variables =
                          DictSet(@, Variable(Tok(tokens, i + 1).value,
                                              type_info'))]
            /\ variables' = DictSet(variables,
                                    Variable(Tok(tokens, i + 1).value,
                                             type_info'))
            /\ i' = i + 3
            /\ pc' = pc
    /\ UNCHANGED <<functions, sequential_calls, live_calls, rules,
                   call_counter, current_function,
                   in_always_block, input, result, tokens, verilog, outputs>>

\* the effect of i, func = self._parse_function(tokens, i) and of the two
\* stores of the function, or of the error it raises
FunctionDeclared(r) ==
    IF r.raised # ""
    THEN /\ pc' = "raised"
         /\ UNCHANGED <<ast, functions, i>>
    ELSE /\ ast' = [ast EXCEPT !.functions = DictSet(@, r.function)]
         /\ functions' = DictSet(functions, r.function)
         /\ i' = r.i
         /\ pc' = pc

\* build_ast, one iteration: a function declaration
DeclareFunction ==
    /\ pc = "build_ast"
    /\ i < Len(tokens)
    /\ ~AtVariableDeclaration
    /\ AtFunctionDeclaration
    /\ FunctionDeclared(parse_function(tokens, i))
    /\ UNCHANGED <<variables, sequential_calls, live_calls, rules,
                   call_counter, current_function,
                   in_always_block, input, type_info, result, tokens,
                   verilog, outputs>>

\* build_ast, one iteration: a top-level assignment
AssignStatement ==
    /\ pc = "build_ast"
    /\ i < Len(tokens)
    /\ ~AtVariableDeclaration
    /\ ~AtFunctionDeclaration
    /\ IsAssignment(tokens, i)
    /\ LET end == ExpressionEnd(tokens, i + 2)
           expr == tokens_to_expression(SubSeq(tokens, i + 3, end))
       IN /\ ast' = [ast EXCEPT !.statements =
                        Append(@, <<"assignment", Tok(tokens, i).value, expr>>)]
          /\ i' = end + 1
    /\ UNCHANGED <<variables, functions, sequential_calls, live_calls, rules,
                   call_counter,
                   current_function,
                   in_always_block, input, type_info, result, tokens,
                   verilog, outputs, pc>>

\* build_ast, one iteration: any other token is skipped
SkipToken ==
    /\ pc = "build_ast"
    /\ i < Len(tokens)
    /\ ~AtVariableDeclaration
    /\ ~AtFunctionDeclaration
    /\ ~IsAssignment(tokens, i)
    /\ i' = i + 1
    /\ UNCHANGED <<variables, functions, sequential_calls, live_calls, rules,
                   call_counter,
                   current_function,
                   in_always_block, input, type_info, result, tokens, ast,
                   verilog, outputs, pc>>

\* build_ast returns; generate_verilog; parse_code returns the text
GenerateVerilog ==
    /\ pc = "build_ast"
    /\ i >= Len(tokens)
    /\ verilog' = generate_verilog(ast, sequential_calls)
    /\ in_always_block' = FALSE
    /\ outputs' = Append(outputs, verilog')
    /\ pc' = "done"
    /\ UNCHANGED <<variables, functions, sequential_calls, live_calls, rules,
                   call_counter,
                   current_function,
                   input, type_info, result, tokens, ast, i>>

NextParser ==
    \/ Tokenize
    \/ DeclareVariable
    \/ DeclareFunction
    \/ AssignStatement
    \/ SkipToken
    \/ GenerateVerilog

SpecParser == InitParser /\ [][NextParser]_vars

\* the lines of the text returned
OutputLines == Split(verilog, "\n")

\* the parameters declared by d, as the AST should hold them
DeclaredParameters(d) ==
    [k \in 1..Len(d.params) |->
        Variable(d.params[k].name, TypeInfo_parse(d.params[k].type))]

\* C5: a line 'function::M T name(T1 p1, ...){ ... }' is recorded as exactly
\* one Function called name, with default mode M, return type parse(T) and
\* the parameters in order, and a submodule called name is emitted with one
\* input per parameter and the output register 'result'.
C5_ModeFunctionRecorded ==
    \A d \in ModeDecls :
        (pc = "done" /\ input = FunctionText(d)) =>
            /\ Len(ast.functions) = 1
            /\ ast.functions[1].name = d.name
            /\ ast.functions[1].default_sync_mode = d.mode
            /\ ast.functions[1].return_type = TypeInfo_parse(d.type)
            /\ ast.functions[1].parameters = DeclaredParameters(d)
            /\ \E k \in 1..Len(OutputLines) :
                   OutputLines[k] = "module " \o d.name \o "("

EndsWith(s, suffix) ==
    /\ Len(suffix) <= Len(s)
    /\ SubSeq(s, Len(s) - Len(suffix) + 1, Len(s)) = suffix

\* every line of the text ends its statement
WellTerminated(ls) ==
    \A k \in 1..Len(ls) : EndsWith(ls[k], ";") \/ EndsWith(ls[k], "}")

\* the places among the lines ls where name is declared
DeclarationsOf(ls, name) ==
    {k \in 1..Len(ls) : \E d \in VarDecls : d.name = name /\ ls[k] = DeclText(d)}

\* the register declaration expected for the declaration d
RegisterLine(d) ==
    "    reg " \o (IF d.base = "signed" THEN "signed " ELSE "")
        \o "[" \o ToString(d.width - 1) \o ":0] " \o d.name \o ";"

\* C8: a variable declared more than once has one entry in the symbol table
\* used for generation, with the type of the last declaration, and the text
\* has one register declaration for it, with that width and signedness.
C8_LastDeclarationWins ==
    pc = "done" =>
        LET ls == Split(input, "\n")
            at == DeclarationsOf(ls, "a")
            last == CHOOSE k \in at : \A m \in at : m <= k
            d == CHOOSE d \in VarDecls : DeclText(d) = ls[last]
        IN (Cardinality(at) >= 2 /\ WellTerminated(ls)) =>
               /\ Cardinality({k \in 1..Len(ast.variables) :
                                   ast.variables[k].name = "a"}) = 1
               /\ Lookup(ast.variables, "a").type_info
                      = TypeInfo(d.base, d.width, None)
               /\ {k \in 1..Len(OutputLines) :
                       /\ StartsWith(OutputLines[k], "    reg ")
                       /\ EndsWith(OutputLines[k], " a;")}
                  = {k \in 1..Len(OutputLines) :
                         OutputLines[k] = RegisterLine(d)}
               /\ Cardinality({k \in 1..Len(OutputLines) :
                                   OutputLines[k] = RegisterLine(d)}) = 1

\* 'a' declared as int.32 and then as signed.16: one signed 16-bit register
C8_Witness ==
    /\ pc = "done"
    /\ input = "int.32 a;\nsigned.16 a;"
    /\ Len(ast.variables) = 1
    /\ ast.variables[1].type_info.base_type = "signed"
    /\ \E k \in 1..Len(OutputLines) :
           OutputLines[k] = "    reg signed [15:0] a;"

\* a 'function' keyword not followed, after an optional return type, by an
\* identifier
HasNamelessFunction ==
    \E k \in 0..(Len(tokens) - 1) :
        /\ Tok(tokens, k).type = "KEYWORD"
        /\ Tok(tokens, k).value = "function"
        /\ LET typed == k + 1 < Len(tokens) /\ Tok(tokens, k + 1).type = "TYPE"
               name == IF typed THEN k + 2 ELSE k + 1
           IN ~(name < Len(tokens) /\ Tok(tokens, name).type = "IDENTIFIER")

RECURSIVE AllDigits(_)
AllDigits(s) == s = "" \/ (At(s, 0) \in Digits /\ AllDigits(From(s, 1)))

\* a type string whose '::' suffix is no sync mode or whose '.' suffix is no
\* integer
IsBadTypeString(v) ==
    LET colons == Find(v, "::", 0)
        type_part == IF colons < 0 THEN v ELSE Slice(v, 0, colons)
        dot == Find(type_part, ".", 0)
    IN \/ colons >= 0 /\ From(v, colons + 2) \notin SyncModes
       \/ /\ dot >= 0
          /\ LET width == From(type_part, dot + 1)
             IN width = "" \/ ~AllDigits(width)

HasBadTypeString ==
    \E k \in 1..Len(tokens) :
        tokens[k].type = "TYPE" /\ IsBadTypeString(tokens[k].value)

\* C10: parse_code raises only on a function declaration without a name or
\* on a type string with a bad mode or width; every other text, however
\* malformed, is compiled.
C10_RaisesOnlyOnNamedCauses ==
    pc = "raised" => (HasNamelessFunction \/ HasBadTypeString)

\* a nameless function raised, in a text with no bad type string
C10_Witness ==
    /\ pc = "raised"
    /\ HasNamelessFunction
    /\ ~HasBadTypeString
    /\ Tok(tokens, i).value = "function"

-----------------------------------------------------------------------------
(* Parser.parse_code called again and again with one source text.          *)

\* most calls of parse_code that return
MaxRuns == 2

\* the example program of src/adHocRegex.py
ExampleProgram ==
    Join("\n",
         <<"",
           "    int.32 a;",
           "    signed.16 b;",
           "    int counter;",
           "    ",
           "    function::concurrent int.32 add(int.32 x, int.32::sequential y) {",
           "        result = x + y;",
           "    }",
           "    ",
           "    function::sequential signed.8 multiply(int.8 x, int.8 y) {",
           "        temp = x * y;",
           "        result = temp;",
           "    }",
           "    ",
           "    a = 0;",
           "    b = 5;",
           "    counter = 0;",
           "    ",
           "    a = add(b, counter);",
           "    b = multiply(3, 4);",
           "    ",
           "    counter = counter + 1;",
           "    ">>)

InitTwice ==
    /\ EmptyContext
    /\ input \in LinePool \cup {ExampleProgram}
    /\ type_info = Raise("not called")
    /\ result = ""
    /\ Idle
    /\ pc = "parse_code"

\* parse_code is called again on the same Parser with the same text
ParseAgain ==
    /\ pc \in {"done", "raised"}
    /\ Len(outputs) < MaxRuns
    /\ pc' = "parse_code"
    /\ UNCHANGED <<variables, functions, sequential_calls, live_calls, rules,
                   call_counter,
                   current_function,
                   in_always_block, input, type_info, result, tokens, ast, i,
                   verilog, outputs>>

\* Parser(): parse_code is called next on a fresh Parser with the same text
NewParser ==
    /\ pc \in {"done", "raised"}
    /\ Len(outputs) < MaxRuns
    /\ variables' = <<>>
    /\ functions' = <<>>
    /\ sequential_calls' = <<>>
    /\ live_calls' = <<>>
    /\ call_counter' = 0
    /\ in_always_block' = FALSE
    /\ pc' = "parse_code"
    /\ UNCHANGED <<rules, current_function, input, type_info, result, tokens,
                   ast, i, verilog, outputs>>

SpecTwice == InitTwice /\ [][NextParser \/ ParseAgain \/ NewParser]_vars

\* C7: calls of parse_code with the same text, on one Parser or on fresh
\* ones, return the same text.
C7_SameTextSameOutput ==
    \A j, k \in 1..Len(outputs) : outputs[j] = outputs[k]

\* the example program compiled a second time by the Parser that compiled it
\* before, whose context still holds the first call's variables
C7_Witness ==
    /\ pc = "done"
    /\ input = ExampleProgram
    /\ Len(outputs) = 2
    /\ Len(variables) > 0
    /\ Len(ast.statements) > 0

-----------------------------------------------------------------------------
(* re.match, for the patterns of the rules of src/main.py.  A pattern is a  *)
(* sequence of items; the match is the first one a backtracking search      *)
(* finds, a greedy repetition trying its longest run first and a lazy one   *)
(* its shortest.                                                           *)

\* a literal text
Lit(s) == [op |-> "lit", s |-> s, chars |-> {}, negated |-> FALSE,
           min |-> 0, greedy |-> TRUE, k |-> 0, body |-> <<>>]

\* a repetition, at least min times, of a character in chars (or, negated,
\* of one not in chars)
Rep(chars, negated, min, greedy) ==
    [op |-> "rep", s |-> "", chars |-> chars, negated |-> negated,
     min |-> min, greedy |-> greedy, k |-> 0, body |-> <<>>]

\* the opening and the closing parenthesis of the capturing group k
Open(k) == [op |-> "open", s |-> "", chars |-> {}, negated |-> FALSE,
            min |-> 0, greedy |-> TRUE, k |-> k, body |-> <<>>]

Close(k) == [op |-> "close", s |-> "", chars |-> {}, negated |-> FALSE,
             min |-> 0, greedy |-> TRUE, k |-> k, body |-> <<>>]

\* (?:body)?
Opt(body) == [op |-> "opt", s |-> "", chars |-> {}, negated |-> FALSE,
              min |-> 0, greedy |-> TRUE, k |-> 0, body |-> body]

\* one character of chars
OneOf(chars) == [op |-> "one", s |-> "", chars |-> chars, negated |-> FALSE,
                 min |-> 1, greedy |-> TRUE, k |-> 0, body |-> <<>>]

\* \w+, \d+, \s*, \s+, .*? and [^;]+
Word == Rep(WordChars, FALSE, 1, TRUE)

Number == Rep(Digits, FALSE, 1, TRUE)

Blanks == Rep(Whitespace, FALSE, 0, TRUE)

SomeBlanks == Rep(Whitespace, FALSE, 1, TRUE)

AnyLazy == Rep({"\n"}, TRUE, 0, FALSE)

NotSemicolons == Rep({";"}, TRUE, 1, TRUE)

\* a group that took no part in the match: match.groups() gives None for it
NoGroup == [matched |-> FALSE, text |-> ""]

NoMatch == [ok |-> FALSE, end |-> 0, groups |-> <<>>]

\* whether the repetition accepts the character c
Accepts(it, c) == (c \in it.chars) # it.negated

\* the end of the longest run from p of characters the repetition accepts
RunEnd(s, p, it) ==
    Least({q \in p..(Len(s) - 1) : ~Accepts(it, At(s, q))}, Len(s))

RECURSIVE Match(_, _, _, _, _)

\* a repetition that may end anywhere from low to high: the match of the rest
\* from the first of these ends, in the order the repetition tries them (the
\* longest first when greedy, the shortest first when lazy), from which the
\* rest matches
TryEnds(s, rest, low, high, greedy, starts, groups) ==
    LET m == [e \in low..high |-> Match(s, rest, e, starts, groups)]
        ends == {e \in low..high : m[e].ok}
    IN IF ends = {} THEN NoMatch
       ELSE m[CHOOSE e \in ends :
                  \A x \in ends : IF greedy THEN x <= e ELSE e <= x]

\* the items matched from p on; starts[k] is where group k was opened
Match(s, items, p, starts, groups) ==
    IF items = <<>> THEN [ok |-> TRUE, end |-> p, groups |-> groups]
    ELSE LET it == Head(items)
             rest == Tail(items)
         IN CASE it.op = "lit" ->
                   IF Slice(s, p, p + Len(it.s)) = it.s
                   THEN Match(s, rest, p + Len(it.s), starts, groups)
                   ELSE NoMatch
              [] it.op = "open" ->
                   Match(s, rest, p, [starts EXCEPT ![it.k] = p], groups)
              [] it.op = "close" ->
                   Match(s, rest, p, starts,
                         [groups EXCEPT ![it.k] =
                             [matched |-> TRUE,
                              text |-> Slice(s, starts[it.k], p)]])
              [] it.op = "opt" ->
                   LET taken == Match(s, it.body \o rest, p, starts, groups)
                   IN IF taken.ok THEN taken
                      ELSE Match(s, rest, p, starts, groups)
              [] it.op = "one" ->
                   IF p < Len(s) /\ Accepts(it, At(s, p))
                   THEN Match(s, rest, p + 1, starts, groups)
                   ELSE NoMatch
              [] it.op = "rep" ->
                   TryEnds(s, rest, p + it.min, RunEnd(s, p, it), it.greedy,
                           starts, groups)

\* re.match(pattern, s) for a pattern with n groups
re_match(pattern, n, s) ==
    Match(s, pattern, 0, [k \in 1..n |-> 0], [k \in 1..n |-> NoGroup])

\* r'(\w+(?:\.\d+)?(?:::\w+)?)\s+(\w+);'
VariableDeclarationRule_pattern ==
    <<Open(1), Word, Opt(<<Lit("."), Number>>), Opt(<<Lit("::"), Word>>),
      Close(1), SomeBlanks, Open(2), Word, Close(2), Lit(";")>>

\* r'function(?:::(\w+))?\s*(?:(\w+(?:\.\d+)?(?:::\w+)?))?\s*(\w+)\((.*?)\)\s*\{'
FunctionDeclarationRule_pattern ==
    <<Lit("function"), Opt(<<Lit("::"), Open(1), Word, Close(1)>>), Blanks,
      Opt(<<Open(2), Word, Opt(<<Lit("."), Number>>),
            Opt(<<Lit("::"), Word>>), Close(2)>>),
      Blanks, Open(3), Word, Close(3), Lit("("), Open(4), AnyLazy, Close(4),
      Lit(")"), Blanks, Lit("{")>>

\* r'(\w+)\s*=\s*([^;]+);'
AssignmentRule_pattern ==
    <<Open(1), Word, Close(1), Blanks, Lit("="), Blanks, Open(2),
      NotSemicolons, Close(2), Lit(";")>>

\* r'(\w+)\s*([&|^])\s*(\w+)'
BitwiseOperatorRule_pattern ==
    <<Open(1), Word, Close(1), Blanks, Open(2), OneOf({"&", "|", "^"}),
      Close(2), Blanks, Open(3), Word, Close(3)>>

-----------------------------------------------------------------------------
(* The rules of src/main.py.  A context is the record of the entries of    *)
(* self.context; a conversion gives the context it leaves, the text it      *)
(* returns ("" for None) and the error it raised, if any.                   *)

Context(vs, fns, calls, live, counter, current, always) ==
    [variables |-> vs, functions |-> fns, sequential_calls |-> calls,
     live_calls |-> live, call_counter |-> counter,
     current_function |-> current, in_always_block |-> always]

\* the context PseudoCToVerilog.__init__ builds
FreshContext == Context(<<>>, <<>>, <<>>, <<>>, 0, NoFunction, FALSE)

Converted(ctx, text) == [raised |-> "", ctx |-> ctx, text |-> text]

\* a conversion that raised: the context is as it was
Raised(ctx, what) == [raised |-> what, ctx |-> ctx, text |-> ""]

\* context['variables'][var_name] = Variable(var_name, type_info); return None
store_variable(ctx, var_name, ti) ==
    IF ti.raised # "" THEN Raised(ctx, ti.raised)
    ELSE Converted([ctx EXCEPT !.variables =
                                   DictSet(@, Variable(var_name, ti))], "")

\* VariableDeclarationRule.convert
VariableDeclarationRule_convert(groups, ctx) ==
    store_variable(ctx, groups[2].text, TypeInfo_parse(groups[1].text))

\* the least index from p on, below Len(s), of a character that is a blank
\* (or, when blank is FALSE, is none), or Len(s)
NextBlank(s, p, blank) ==
    Least({k \in p..(Len(s) - 1) : isspace(At(s, k)) = blank}, Len(s))

\* str.split(): the runs of characters that are not blanks
RECURSIVE SplitBlanks(_)
SplitBlanks(s) ==
    LET p == NextBlank(s, 0, FALSE)
        e == NextBlank(s, p, TRUE)
    IN IF p >= Len(s) THEN <<>>
       ELSE <<Slice(s, p, e)>> \o SplitBlanks(From(s, e))

RECURSIVE convert_parameters(_, _, _)

\* parameters.append(Variable(var_name, type_info)), then the next piece
append_parameter(pieces, k, parameters, var_name, ti) ==
    IF ti.raised # "" THEN [raised |-> ti.raised, parameters |-> parameters]
    ELSE convert_parameters(pieces, k + 1,
                            Append(parameters, Variable(var_name, ti)))

\* the piece whose words are parts: a parameter when there are two or more
\* (an empty piece has none)
convert_parameter(pieces, k, parameters, parts) ==
    IF Len(parts) >= 2
    THEN append_parameter(pieces, k, parameters, Join(" ", Tail(parts)),
                          TypeInfo_parse(parts[1]))
    ELSE convert_parameters(pieces, k + 1, parameters)

\* the parameter loop of FunctionDeclarationRule.convert over the pieces of
\* params_str.split(','), from the k-th on
convert_parameters(pieces, k, parameters) ==
    IF k > Len(pieces) THEN [raised |-> "", parameters |-> parameters]
    ELSE convert_parameter(pieces, k, parameters,
                           SplitBlanks(Strip(pieces[k])))

\* function = Function(...); context['current_function'] = function;
\* context['functions'][name] = function: the pending calls of the function
\* that had the name keep the object that is replaced
store_function(ctx, name, default_sync, return_type, ps) ==
    IF return_type # NoReturnType /\ return_type.raised # ""
    THEN Raised(ctx, return_type.raised)
    ELSE IF ps.raised # "" THEN Raised(ctx, ps.raised)
    ELSE Converted([ctx EXCEPT !.current_function = FunctionRef(name),
                               !.live_calls =
                                   [k \in 1..Len(@) |->
                                       /\ @[k]
                                       /\ ctx.sequential_calls[k].func.name
                                              # name],
                               !.functions =
                                   DictSet(@, Function(name, ps.parameters,
                                                       return_type, <<>>,
                                                       default_sync))], "")

\* FunctionDeclarationRule.convert
FunctionDeclarationRule_convert(groups, ctx) ==
    IF groups[1].matched /\ groups[1].text \notin SyncModes
    THEN Raised(ctx, "ValueError")
    ELSE store_function(ctx, groups[3].text,
             IF groups[1].matched THEN groups[1].text ELSE CONCURRENT,
             IF groups[2].matched THEN TypeInfo_parse(groups[2].text)
             ELSE NoReturnType,
             IF Strip(groups[4].text) # ""
             THEN convert_parameters(Split(groups[4].text, ","), 1, <<>>)
             ELSE [raised |-> "", parameters |-> <<>>])

\* the text AssignmentRule.convert returns for the converted expression, and
\* the context with the instances its calls left pending
assignment_text(ctx, var_name, converted) ==
    Converted([ctx EXCEPT !.sequential_calls = converted.calls,
                          !.live_calls = Held(@, converted.calls)],
              IF ctx.in_always_block
              THEN var_name \o " <= " \o converted.text \o ";"
              ELSE "assign " \o var_name \o " = " \o converted.text \o ";")

\* AssignmentRule.convert
AssignmentRule_convert(groups, ctx) ==
    assignment_text(ctx, groups[1].text,
                    convert_expression(groups[2].text, ctx.functions,
                                       ctx.sequential_calls, ctx.call_counter))

\* BitwiseOperatorRule.convert
BitwiseOperatorRule_convert(groups, ctx) ==
    Converted(ctx, groups[1].text \o " " \o groups[2].text \o " "
                       \o groups[3].text)

\* rule.pattern()
rule_pattern(rule) ==
    CASE rule = "VariableDeclarationRule" -> VariableDeclarationRule_pattern
      [] rule = "FunctionDeclarationRule" -> FunctionDeclarationRule_pattern
      [] rule = "AssignmentRule" -> AssignmentRule_pattern
      [] rule = "BitwiseOperatorRule" -> BitwiseOperatorRule_pattern

\* the number of capturing groups of a pattern
RECURSIVE CountGroups(_)
CountGroups(items) ==
    IF items = <<>> THEN 0
    ELSE (IF Head(items).op = "open" THEN 1 ELSE 0)
         + CountGroups(Head(items).body) + CountGroups(Tail(items))

\* re.compile(rule.pattern()).groups
rule_groups(rule) == CountGroups(rule_pattern(rule))

\* rule.convert(match, context)
rule_convert(rule, groups, ctx) ==
    CASE rule = "VariableDeclarationRule" ->
             VariableDeclarationRule_convert(groups, ctx)
      [] rule = "FunctionDeclarationRule" ->
             FunctionDeclarationRule_convert(groups, ctx)
      [] rule = "AssignmentRule" -> AssignmentRule_convert(groups, ctx)
      [] rule = "BitwiseOperatorRule" ->
             BitwiseOperatorRule_convert(groups, ctx)

RECURSIVE apply_rules(_, _, _)

\* the body of the loop over the rules: m is the match of the first of rs
apply_rule(rs, line, ctx, m) ==
    IF m.ok
    THEN [matched |-> TRUE, r |-> rule_convert(Head(rs), m.groups, ctx)]
    ELSE apply_rules(Tail(rs), line, ctx)

\* the loop over self.rules of parse_and_convert for one line: the first rule
\* whose pattern matches converts the line
apply_rules(rs, line, ctx) ==
    IF rs = <<>> THEN [matched |-> FALSE, r |-> Converted(ctx, "")]
    ELSE apply_rule(rs, line, ctx,
                    re_match(rule_pattern(Head(rs)),
                             rule_groups(Head(rs)), line))

\* str.count(c) for a character c
RECURSIVE Count(_, _)
Count(s, c) ==
    IF s = "" THEN 0
    ELSE (IF At(s, 0) = c THEN 1 ELSE 0) + Count(From(s, 1), c)

\* the loop of _parse_block from line k on
RECURSIVE parse_block_from(_, _, _, _)
parse_block_from(lines, k, brace_count, block_lines) ==
    IF k < Len(lines) /\ brace_count > 0
    THEN LET line == Strip(lines[k + 1])
             count == brace_count + Count(line, "{") - Count(line, "}")
         IN parse_block_from(lines, k + 1, count,
                             IF count > 0 THEN Append(block_lines, line)
                             ELSE block_lines)
    ELSE [block_lines |-> block_lines, i |-> k - 1]

\* _parse_block
parse_block(lines, start_idx) == parse_block_from(lines, start_idx + 1, 1, <<>>)

\* self.context['current_function'].statements = body_lines: the object is
\* the one context['functions'] holds under its name, and the one the live
\* pending calls of that name hold
set_statements(ctx, body_lines) ==
    IF ctx.current_function = NoFunction THEN ctx
    ELSE [ctx EXCEPT !.functions =
             [j \in 1..Len(@) |->
                 IF FunctionRef(@[j].name) = ctx.current_function
                 THEN [@[j] EXCEPT !.statements = body_lines]
                 ELSE @[j]],
                     !.sequential_calls =
             [k \in 1..Len(@) |->
                 IF /\ ctx.live_calls[k]
                    /\ FunctionRef(@[k].func.name) = ctx.current_function
                 THEN [@[k] EXCEPT !.func.statements = body_lines]
                 ELSE @[k]]]

RECURSIVE process_lines(_, _, _, _, _)

\* the function body that starts at line k, parsed as block: the loop goes
\* on at the line the block ends on.  A block that starts on the last line
\* leaves the cursor where it is: the loop never ends.
enter_block(rs, lines, k, ctx, processed_lines, block) ==
    IF block.i = k
    THEN [raised |-> "", hung |-> TRUE,
          ctx |-> set_statements(ctx, block.block_lines),
          processed_lines |-> processed_lines]
    ELSE process_lines(rs, lines, block.i,
                       set_statements(ctx, block.block_lines),
                       processed_lines)

\* the line k, put through the rules with the outcome m: the line as it is
\* when no rule matched, what the rule returned when it is not None
after_rules(rs, lines, k, processed_lines, line, m) ==
    IF m.r.raised # ""
    THEN [raised |-> m.r.raised, hung |-> FALSE, ctx |-> m.r.ctx,
          processed_lines |-> processed_lines]
    ELSE process_lines(rs, lines, k + 1, m.r.ctx,
                       IF ~m.matched THEN Append(processed_lines, line)
                       ELSE IF m.r.text # ""
                            THEN Append(processed_lines, m.r.text)
                            ELSE processed_lines)

\* the while loop of parse_and_convert from line k on, with self.rules = rs
process_lines(rs, lines, k, ctx, processed_lines) ==
    IF k >= Len(lines)
    THEN [raised |-> "", hung |-> FALSE, ctx |-> ctx,
          processed_lines |-> processed_lines]
    ELSE IF /\ Find(Strip(lines[k + 1]), "{", 0) >= 0
            /\ k > 0
            /\ Find(Strip(lines[k]), "function", 0) >= 0
         THEN enter_block(rs, lines, k, ctx, processed_lines,
                          parse_block(lines, k))
         ELSE after_rules(rs, lines, k, processed_lines, Strip(lines[k + 1]),
                          apply_rules(rs, Strip(lines[k + 1]), ctx))

RECURSIVE main_logic(_, _, _, _)

\* verilog_code.append(f"            {converted}"), then the next line
main_logic_converted(processed_lines, k, code, r) ==
    main_logic(processed_lines, k + 1, r.ctx,
               Append(code, "            " \o r.text))

\* the line processed_lines[k], with the match a of the assignment pattern:
\* converted when it matches, kept as it is when it does not
main_logic_line(processed_lines, k, ctx, code, a) ==
    IF a.ok
    THEN main_logic_converted(processed_lines, k, code,
                              AssignmentRule_convert(a.groups, ctx))
    ELSE main_logic(processed_lines, k + 1, ctx,
                    Append(code, "            " \o processed_lines[k]))

\* the main logic loop of _generate_verilog over the processed lines, from
\* the k-th on: the code lines it adds and the context it leaves
main_logic(processed_lines, k, ctx, code) ==
    IF k > Len(processed_lines) THEN [ctx |-> ctx, code |-> code]
    ELSE IF /\ processed_lines[k] # ""
            /\ ~StartsWith(processed_lines[k], "int")
            /\ ~StartsWith(processed_lines[k], "signed")
            /\ ~StartsWith(processed_lines[k], "function")
         THEN main_logic_line(processed_lines, k, ctx, code,
                              re_match(AssignmentRule_pattern, 2,
                                       processed_lines[k]))
         ELSE main_logic(processed_lines, k + 1, ctx, code)

RECURSIVE function_logic(_, _, _, _)

\* module_code.append(f"            {converted}"), then the next statement
function_logic_converted(statements, k, code, r) ==
    function_logic(statements, k + 1,
                   [r.ctx EXCEPT !.in_always_block = FALSE],
                   Append(code, "            " \o r.text))

\* the statement statements[k], with the match a of the assignment pattern
function_logic_statement(statements, k, ctx, code, a) ==
    IF a.ok
    THEN function_logic_converted(statements, k, code,
             AssignmentRule_convert(a.groups,
                                    [ctx EXCEPT !.in_always_block = TRUE]))
    ELSE function_logic(statements, k + 1, ctx,
                        IF statements[k] # ""
                        THEN Append(code, "            " \o statements[k])
                        ELSE code)

\* the loop over func.statements of PseudoCToVerilog._generate_function_module
function_logic(statements, k, ctx, code) ==
    IF k > Len(statements) THEN [ctx |-> ctx, code |-> code]
    ELSE function_logic_statement(statements, k, ctx, code,
                                  re_match(AssignmentRule_pattern, 2,
                                           statements[k]))

\* the module of func around the converted body
function_module(func, body) ==
    [ctx |-> body.ctx,
     code |-> <<"module " \o func.name \o "(",
                "    " \o Join(",\n    ", ports(func)),
                ");",
                "",
                "    always @(posedge clk or posedge rst) begin",
                "        if (rst) begin">>
              \o (IF func.return_type # NoReturnType
                  THEN <<"            result <= 0;">> ELSE <<>>)
              \o <<"        end else begin">>
              \o body.code
              \o <<"        end", "    end", "", "endmodule", "">>]

\* PseudoCToVerilog._generate_function_module
rule_generate_function_module(func, ctx) ==
    function_module(func, function_logic(func.statements, 1, ctx, <<>>))

RECURSIVE function_modules(_, _, _)

\* verilog_code.extend(m), then the next function
extend_modules(k, code, m) == function_modules(k + 1, m.ctx, code \o m.code)

\* the loop of _generate_verilog over the functions, from the k-th on
function_modules(k, ctx, code) ==
    IF k > Len(ctx.functions) THEN [ctx |-> ctx, code |-> code]
    ELSE extend_modules(k, code,
                        rule_generate_function_module(ctx.functions[k], ctx))

\* the instantiation blocks of the pending calls
sequential_instances(calls) ==
    Flatten([k \in 1..Len(calls) |->
                generate_sequential_instance(calls[k].func,
                                             calls[k].instance_name,
                                             calls[k].args)])

\* the text of _generate_verilog, from the main logic and the modules
verilog_text(ctx, main_code, modules) ==
    [ctx |-> modules.ctx,
     text |->
       Join("\n",
         <<"module main(", "    input clk,", "    input rst", ");", "">>
         \o [k \in 1..Len(ctx.variables) |->
                generate_variable_declaration(ctx.variables[k])]
         \o <<"",
              "    always @(posedge clk or posedge rst) begin",
              "        if (rst) begin">>
         \o [k \in 1..Len(ctx.variables) |->
                "            " \o ctx.variables[k].name \o " <= 0;"]
         \o <<"        end else begin">>
         \o main_code
         \o <<"        end", "    end", "">>
         \o modules.code
         \o sequential_instances(modules.ctx.sequential_calls)
         \o <<"endmodule">>)]

\* _generate_verilog after the main logic loop
after_main_logic(ctx, main) ==
    verilog_text(ctx, main.code,
                 function_modules(1, [main.ctx EXCEPT !.in_always_block = FALSE],
                                  <<>>))

\* PseudoCToVerilog._generate_verilog
rule_generate_verilog(processed_lines, ctx) ==
    after_main_logic(ctx,
        main_logic(processed_lines, 1, [ctx EXCEPT !.in_always_block = TRUE],
                   <<>>))

\* the outcome of parse_and_convert when the loop over the lines ended as
\* first and _generate_verilog as second
compiled(first, second) ==
    [raised |-> "", hung |-> FALSE, ctx |-> second.ctx, text |-> second.text]

\* parse_and_convert after the loop over the lines
after_lines(first) ==
    IF first.raised # "" \/ first.hung
    THEN [raised |-> first.raised, hung |-> first.hung, ctx |-> first.ctx,
          text |-> ""]
    ELSE compiled(first, rule_generate_verilog(first.processed_lines, first.ctx))

\* PseudoCToVerilog.parse_and_convert on a compiler whose rules are rs and
\* whose context is ctx
parse_and_convert(rs, code, ctx) ==
    after_lines(process_lines(rs, Split(Strip(code), "\n"), 0, ctx, <<>>))

-----------------------------------------------------------------------------
(* PseudoCToVerilog.parse_and_convert called again and again.              *)

\* most calls of parse_and_convert
MaxCompiles == 2

\* most rules a compiler holds: the three of the constructor and one more
MaxRules == 4

\* the classes of the rules given to register_rule: the custom rule of the
\* repository, and a second instance of a rule the constructor registered
RuleClasses == {"BitwiseOperatorRule", "AssignmentRule"}

\* the source texts compiled: declarations and assignments, functions with
\* the brace on the line of the header and on the next one, calls of
\* functions the text declares and of functions it does not, a bad type
\* string, the empty text, a block that starts on the last line, a call
\* of a sequential function declared without a return type, a form feed
\* between the type and the name before a line with a bitwise operator, and
\* a declaration and an assignment with the blanks of str.isspace that are
\* not on a keyboard (vertical tab, file, group and unit separators), and a
\* function named None whose body is a block on the line after the header
Programs ==
    {"int.8 a;\na = 1;",
     "signed.16 b;\nb = 5;",
     "function::sequential int.8 inc(int.8 x) {\nresult = x + 1;\n}\nint.8 a;\na = inc(a);",
     "function int.32 add(int.32 x, int.32::sequential y) {\nresult = x + y;\n}\na = add(b, 1) + add(b);",
     "function neg(signed.8 x)\n{\nresult = 0 - inc(x);\n}",
     "a = inc(a);",
     "int::fast d;",
     "",
     "function f(int.8 x)\n{",
     "function::sequential f(int.8 x) {\nresult = x;\n}\nint.8 a;\na = f(a);",
     "int.8\fc;\nc&1",
     "int.8d;\nd=1;",
     "function int.8 None(int.8 x) {\n{\nresult = x;\n}"}

\* the context of the compiler, as a record
TheContext ==
    Context(variables, functions, sequential_calls, live_calls, call_counter,
            current_function, in_always_block)

InitCompile ==
    /\ EmptyContext
    /\ input = ""
    /\ type_info = Raise("not called")
    /\ result = ""
    /\ Idle
    /\ pc = "ready"

\* the call of parse_and_convert on code ends as r; outputs takes the text
\* returned, or "" when the call raised or does not return
Returns(code, r) ==
    /\ input' = code
    /\ variables' = r.ctx.variables
    /\ functions' = r.ctx.functions
    /\ sequential_calls' = r.ctx.sequential_calls
    /\ live_calls' = r.ctx.live_calls
    /\ call_counter' = r.ctx.call_counter
    /\ current_function' = r.ctx.current_function
    /\ in_always_block' = r.ctx.in_always_block
    /\ verilog' = r.text
    /\ outputs' = Append(outputs, r.text)
    /\ pc' = IF r.hung THEN "hung"
             ELSE IF r.raised # "" THEN "raised"
             ELSE "done"

\* converter.parse_and_convert(code)
Compile ==
    /\ pc \in {"ready", "done", "raised"}
    /\ Len(outputs) < MaxCompiles
    /\ \E code \in Programs :
          Returns(code, parse_and_convert(rules, code, TheContext))
    /\ UNCHANGED <<rules, type_info, result, tokens, ast, i>>

\* converter.register_rule(rule): self.rules.append(rule)
register_rule ==
    /\ pc \in {"ready", "done", "raised"}
    /\ Len(rules) < MaxRules
    /\ \E rule \in RuleClasses : rules' = Append(rules, rule)
    /\ pc' = "ready"
    /\ UNCHANGED <<variables, functions, sequential_calls, live_calls,
                   call_counter, current_function, in_always_block, input,
                   type_info, result, tokens, ast, i, verilog, outputs>>

\* converter = PseudoCToVerilog(): at any time between two calls
NewCompiler ==
    /\ pc \in {"ready", "done", "raised"}
    /\ variables' = FreshContext.variables
    /\ functions' = FreshContext.functions
    /\ sequential_calls' = FreshContext.sequential_calls
    /\ live_calls' = FreshContext.live_calls
    /\ rules' = default_rules
    /\ call_counter' = FreshContext.call_counter
    /\ current_function' = FreshContext.current_function
    /\ in_always_block' = FreshContext.in_always_block
    /\ pc' = "ready"
    /\ UNCHANGED <<input, type_info, result, tokens, ast, i, verilog, outputs>>

SpecCompile == InitCompile /\ [][Compile \/ register_rule \/ NewCompiler]_vars

\* the compiler is as a compiler that started the call with an empty context
\* and ended it as fresh
AsFresh(fresh) ==
    /\ verilog = fresh.text
    /\ variables = fresh.ctx.variables
    /\ functions = fresh.ctx.functions
    /\ sequential_calls = fresh.ctx.sequential_calls

\* C6: the context is reset at the start of every call of parse_and_convert:
\* a call that returns leaves the variables, functions and pending instances
\* that a compiler with an empty context would leave for the same text, and
\* returns the text that compiler would return, with register declarations,
\* submodules and instantiation blocks for that text only.
C6_ContextResetPerCompile ==
    pc = "done" => AsFresh(parse_and_convert(rules, input, FreshContext))

\* the indexes of the lines of ls that open an instantiation block
BlockStarts(ls) ==
    {k \in 1..Len(ls) : StartsWith(ls[k], "    // Sequential function instance: ")}

\* the index of the n-th line of ls that opens an instantiation block, or 0
NthBlockStart(ls, n) ==
    Least({k \in BlockStarts(ls) :
              Cardinality({x \in BlockStarts(ls) : x <= k}) = n}, 0)

\* the lines of the instantiation block that opens at line k of ls, to the
\* line that closes it
BlockAt(ls, k) ==
    SubSeq(ls, k, Least({j \in k..Len(ls) : ls[j] = "    );"}, Len(ls)))

\* the block that opens at line k of ls is the block of the instance and
\* binds the port result to the net instance_name_result
BindsResult(ls, k, instance_name) ==
    /\ k > 0
    /\ ls[k] = "    // Sequential function instance: " \o instance_name
    /\ \E j \in 1..Len(BlockAt(ls, k)) :
           BlockAt(ls, k)[j] = "        .result(" \o instance_name \o "_result)"

\* C11: for every record (F, instance_name, args) of the pending-instances
\* list, whether or not F declares a return type, the instantiation block
\* generated for the record binds the port result to the net
\* instance_name_result, the net substituted at the call site.
C11_ResultBoundInBlock ==
    pc = "done" =>
        \A n \in 1..Len(sequential_calls) :
            BindsResult(OutputLines, NthBlockStart(OutputLines, n),
                        sequential_calls[n].instance_name)

-----------------------------------------------------------------------------
(* Parser.tokenize on texts made of lexical fragments.                     *)

\* most fragments of a text given to the lexer
MaxPieces == 3

\* the fragments: names, a keyword, a type, numbers, the operators of one and
\* of two characters, delimiters, blanks (a space, a form feed, a vertical
\* tab and a file separator), a line break, characters the lexer has no
\* branch for, and a statement
Pieces ==
    {"a", "_b", "if", "int.8", "12", "=", "<", "+", "<=", ">=", "==", "!=",
     ";", ",", "(", " ", "\f", "", "", "\n", ".", "b <= 1;"}

\* the texts: up to MaxPieces fragments, one after the other
LexerSources ==
    {Join("", ps) : ps \in UNION {[1..k -> Pieces] : k \in 1..MaxPieces}}

InitLexer ==
    /\ EmptyContext
    /\ input \in LexerSources
    /\ type_info = Raise("not called")
    /\ result = ""
    /\ Idle
    /\ pc = "parse_code"

SpecLexer == InitLexer /\ [][Tokenize]_vars

\* the lines parse_code gives to tokenize
InputLines == Split(Strip(input), "\n")

\* the columns of the token t, from its first to its last character
Columns(t) == t.column..(t.column + Len(t.value) - 1)

\* the lexer cursor comes to column c of line l (0-based): no token of the
\* line starts before c and ends at c or after it
AtCursor(l, c) ==
    \A k \in 1..Len(tokens) :
        tokens[k].line = l => ~(c \in Columns(tokens[k]) /\ c # tokens[k].column)

\* the two-character operators
OperatorPairs == {"<=", ">=", "==", "!="}

\* C12: whenever the text at the lexer cursor begins with one of the
\* two-character operators <=, >=, ==, !=, tokenize emits one OPERATOR token
\* whose text is that operator, at that column.
C12_TwoCharOperatorPreferred ==
    pc = "build_ast" =>
        \A l \in 0..(Len(InputLines) - 1) :
            \A c \in 0..(Len(InputLines[l + 1]) - 2) :
                (/\ AtCursor(l, c)
                 /\ Slice(InputLines[l + 1], c, c + 2) \in OperatorPairs)
                => \E k \in 1..Len(tokens) :
                       tokens[k] = Token("OPERATOR",
                                         Slice(InputLines[l + 1], c, c + 2),
                                         l, c)

\* the characters of the classes the lexer recognises
RecognisedChars ==
    Letters \cup DigitChars
    \cup {"_", "=", "+", "-", "*", "/", "&", "|", "^", "<", ">",
          "{", "}", "(", ")", ";", ","}

\* the token t comes before the token u in (line, column) order
Before(t, u) ==
    \/ t.line < u.line
    \/ t.line = u.line /\ t.column < u.column

\* the text of the token t is the text of its line from its column on, and
\* t lies within that line
IsSourceText(t) ==
    /\ t.line \in 0..(Len(InputLines) - 1)
    /\ Len(t.value) > 0
    /\ t.column + Len(t.value) <= Len(InputLines[t.line + 1])
    /\ SubSeq(InputLines[t.line + 1], t.column + 1,
              t.column + Len(t.value)) = t.value

\* the tokens that hold the character at column c of line l
TokensAt(l, c) ==
    {k \in 1..Len(tokens) : tokens[k].line = l /\ c \in Columns(tokens[k])}

\* C13: the tokens tokenize returns are in strictly increasing (line,
\* column) order, the text of each is the text of its line from its column
\* on, no token spans two lines, no two tokens overlap, and every character
\* that is of a class the lexer recognises belongs to exactly one token.
C13_LexerLossless ==
    pc = "build_ast" =>
        /\ \A k \in 1..(Len(tokens) - 1) : Before(tokens[k], tokens[k + 1])
        /\ \A k \in 1..Len(tokens) : IsSourceText(tokens[k])
        /\ \A j, k \in 1..Len(tokens) :
               (j # k /\ tokens[j].line = tokens[k].line)
               => Columns(tokens[j]) \cap Columns(tokens[k]) = {}
        /\ \A l \in 0..(Len(InputLines) - 1) :
               \A c \in 0..(Len(InputLines[l + 1]) - 1) :
                   At(InputLines[l + 1], c) \in RecognisedChars
                   => Cardinality(TokensAt(l, c)) = 1

\* a text of two lines is tokenized: a character the lexer has no branch for
\* on the first line, and a statement with blanks on the second
C13_Witness ==
    /\ pc = "build_ast"
    /\ input = "!=\nb <= 1;"
    /\ Len(tokens) = 5
    /\ tokens[1] = Token("OPERATOR", "=", 0, 1)
    /\ tokens[3] = Token("OPERATOR", "<=", 1, 2)

-----------------------------------------------------------------------------
(* Parser.parse_code on texts that declare global variables.               *)

\* most lines of a text of declarations
MaxDecls == 3

\* declarations of global variables: two names, each with two types
GlobalDecls ==
    {[text |-> "int.32 a;", name |-> "a"],
     [text |-> "signed.16 a;", name |-> "a"],
     [text |-> "unsigned.8 b;", name |-> "b"],
     [text |-> "signed b;", name |-> "b"]}

\* lines that declare no global variable: an assignment that reads as a
\* reset line, a function with a sequential parameter, an assignment with a
\* call of that function
OtherLines ==
    {"a = 0;", "function f(int.8::sequential c){ c = g(a); }", "b = f(a);"}

\* the lines of the texts
DeclareLines == {d.text : d \in GlobalDecls} \cup OtherLines

\* the texts: up to MaxDecls lines
DeclareSources ==
    {Join("\n", ls) : ls \in UNION {[1..k -> DeclareLines] : k \in 1..MaxDecls}}

InitDeclare ==
    /\ EmptyContext
    /\ input \in DeclareSources
    /\ type_info = Raise("not called")
    /\ result = ""
    /\ Idle
    /\ pc = "parse_code"

SpecDeclare == InitDeclare /\ [][NextParser]_vars

\* the n-th least element of the set of indexes found, or 0
NthOf(found, n) ==
    Least({k \in found : Cardinality({x \in found : x <= k}) = n}, 0)

\* the name the line declares, or "" when it declares none
DeclaredName(line) ==
    IF \E d \in GlobalDecls : d.text = line
    THEN (CHOOSE d \in GlobalDecls : d.text = line).name
    ELSE ""

\* the indexes of the lines of ls that declare a name no line before declares
FirstDeclarations(ls) ==
    {k \in 1..Len(ls) :
        /\ DeclaredName(ls[k]) # ""
        /\ \A j \in 1..(k - 1) : DeclaredName(ls[j]) # DeclaredName(ls[k])}

\* the names the lines of ls declare, in the order of their first declaration
DeclaredNames(ls) ==
    [n \in 1..Cardinality(FirstDeclarations(ls)) |->
        DeclaredName(ls[NthOf(FirstDeclarations(ls), n)])]

\* the index of the first line of ls that is the line given, or 0
LineIndex(ls, line) == Least({k \in 1..Len(ls) : ls[k] = line}, 0)

\* the lines of the text between the header of the top module and its
\* clocked block: the register declarations
RegisterSection(ls) ==
    SubSeq(ls, 6,
           LineIndex(ls, "    always @(posedge clk or posedge rst) begin") - 2)

\* the lines of the reset branch of the clocked block of the top module
ResetSection(ls) ==
    SubSeq(ls, LineIndex(ls, "        if (rst) begin") + 1,
           LineIndex(ls, "        end else begin") - 1)

\* the register declaration of a variable of the type recorded: the range
\* [W-1:0] for the width W, signed only for the base type signed
ExpectedRegister(v) ==
    "    reg " \o (IF v.type_info.base_type = "signed" THEN "signed " ELSE "")
        \o "[" \o ToString(v.type_info.width - 1) \o ":0] " \o v.name \o ";"

\* the register declarations and the reset lines are those of the names, in
\* their order, with the types recorded for them
DeclaredOnce(names, registers, resets) ==
    /\ \A n \in 1..Len(names) : HasKey(ast.variables, names[n])
    /\ registers = [n \in 1..Len(names) |->
                       ExpectedRegister(Lookup(ast.variables, names[n]))]
    /\ resets = [n \in 1..Len(names) |->
                    "            " \o names[n] \o " <= 0;"]

\* C14: for every text, generate_verilog emits, for each distinct global
\* variable declared, exactly one register declaration and exactly one reset
\* line 'name <= 0;', both in the order of the first declarations; the
\* register declaration has the range [W-1:0] of the width W recorded, and
\* the qualifier signed if and only if the base type recorded is signed.
C14_OneRegisterAndResetPerVariable ==
    pc = "done" =>
        DeclaredOnce(DeclaredNames(InputLines), RegisterSection(OutputLines),
                     ResetSection(OutputLines))

\* a is declared, then b, then a again with another type, and the text is
\* generated
C14_Witness ==
    /\ pc = "done"
    /\ input = "int.32 a;\nunsigned.8 b;\nsigned.16 a;"
    /\ RegisterSection(OutputLines)
           = <<"    reg signed [15:0] a;", "    reg [7:0] b;">>
    /\ ResetSection(OutputLines)
           = <<"            a <= 0;", "            b <= 0;">>

-----------------------------------------------------------------------------
(* Parser.parse_code on texts that end in the middle of a declaration.     *)

\* most lines of a text of truncated declarations
MaxParts == 2

\* whole declarations and statements, and their beginnings
TruncatedLines ==
    {"int.8 a;", "int.8 a", "int",
     "a = b + 1;", "a = b", "a =", "a",
     "function f(int.8 x){ a = x; }", "function f(int.8 x){ a = x",
     "function f(int.8 x){", "function f(int.8 x)", "function f(int.8 x",
     "function f(int.8", "function f(", "function f", "function",
     "}"}

\* the texts: up to MaxParts lines
TruncatedSources ==
    {Join("\n", ls) :
        ls \in UNION {[1..k -> TruncatedLines] : k \in 1..MaxParts}}

InitProgress ==
    /\ EmptyContext
    /\ input \in TruncatedSources
    /\ type_info = Raise("not called")
    /\ result = ""
    /\ Idle
    /\ pc = "parse_code"

\* parse_code has a step to take: it has not returned and has not raised
\* (the states in which NextParser is enabled)
Running == pc \in {"parse_code", "build_ast"}

\* parse_code runs on, as sequential code does: weak fairness of NextParser,
\* WF_vars(NextParser), with its enabling condition written as Running
RunsOn == []<>(~Running) \/ []<><<NextParser>>_vars

SpecProgress == InitProgress /\ [][NextParser]_vars /\ RunsOn

\* a loop that starts with the cursor at k and ends with it at end: the
\* cursor does not go back, and goes on when the loop runs at all
Advances(k, end, runs) == end >= k /\ (runs => end > k)

\* the parameter loop of _parse_function, started at k, advances or raises
ParameterLoopAdvances(k, params) ==
    \/ params.raised # ""
    \/ Advances(k, params.i, k < Len(tokens) /\ ~IsDelimiter(tokens, k, ")"))

\* the inner loops of _parse_function and of build_ast advance from every
\* cursor
InnerLoopsAdvance ==
    \A k \in 0..Len(tokens) :
        /\ ParameterLoopAdvances(k, parse_parameters(tokens, k, <<>>))
        /\ Advances(k, parse_body(tokens, k, <<>>).i,
                    k < Len(tokens) /\ ~IsDelimiter(tokens, k, "}"))
        /\ Advances(k, StatementEnd(tokens, k),
                    k < Len(tokens) /\ ~IsDelimiter(tokens, k, ";"))
        /\ Advances(k, ExpressionEnd(tokens, k),
                    k < Len(tokens) /\ Tok(tokens, k).type # "DELIMITER")

\* one step of parse_code: build_ast starts with the cursor at 0, and an
\* iteration of its main loop runs below len(tokens) and moves the cursor on
MainLoopAdvances ==
    /\ (pc = "parse_code" /\ pc' = "build_ast") => i' = 0
    /\ (pc = "build_ast" /\ pc' = "build_ast") => (i < Len(tokens) /\ i' > i)

\* C15: on every token sequence, each iteration of the main loop of
\* build_ast and of the inner loops of _parse_function moves the cursor on
\* and never back, so that build_ast ends, by returning or by raising, after
\* at most len(tokens) iterations of the main loop, also when a declaration
\* or a function header is cut off at the end of the tokens.
C15_BuilderTerminates ==
    /\ [](pc = "build_ast" => InnerLoopsAdvance)
    /\ [][MainLoopAdvances]_vars
    /\ <>(pc \in {"done", "raised"})

\* build_ast has returned on a text that ends inside a parameter list, with
\* the cursor past the end of the tokens
C15_Witness ==
    /\ pc = "done"
    /\ input = "a = b + 1;\nfunction f(int.8 x"
    /\ Len(tokens) = 11
    /\ i > Len(tokens)

-----------------------------------------------------------------------------
(* The expression text of a top-level assignment.                          *)

\* the lines that are top-level assignments, with the name assigned
AssignmentLines ==
    {[text |-> "a = 0;", name |-> "a"], [text |-> "b = f(a);", name |-> "b"]}

\* whether the line is a top-level assignment
IsAssignmentLine(line) == \E d \in AssignmentLines : d.text = line

\* the index of the first token of toks that is the delimiter ';', or 0
SemicolonIndex(toks) ==
    Least({k \in 1..Len(toks) :
              toks[k].type = "DELIMITER" /\ toks[k].value = ";"}, 0)

\* the texts of the tokens of toks that are identifiers, operators, numbers
\* or parentheses, joined by single blanks
JoinedKept(toks) ==
    Join(" ", [k \in 1..Len(SelectSeq(toks, IsExpressionToken)) |->
                  SelectSeq(toks, IsExpressionToken)[k].value])

\* the statement to record for the assignment line 'x = e;' with the tokens
\* toks: x, and the tokens of e, after 'x =' and up to the ';'
ExpectedStatement(toks) ==
    <<"assignment", toks[1].value,
      JoinedKept(SubSeq(toks, 3, SemicolonIndex(toks) - 1))>>

\* the statements to record for the assignment lines among ls, in order
ExpectedStatements(ls) ==
    [k \in 1..Len(SelectSeq(ls, IsAssignmentLine)) |->
        ExpectedStatement(tokenize(<<SelectSeq(ls, IsAssignmentLine)[k]>>))]

\* C16: for every top-level assignment 'x = e;' the expression recorded by
\* build_ast is the single-blank join, in order, of every identifier,
\* operator, number and parenthesis token of e up to the ';' that ends it;
\* for 'x = f(a);' it holds the parentheses and the argument.
C16_ExpressionUpToSemicolon ==
    pc = "done" => ast.statements = ExpectedStatements(InputLines)

-----------------------------------------------------------------------------
(* The top-level assignments of PseudoCToVerilog.parse_and_convert.        *)

\* the top-level assignment lines of the texts compiled: the name assigned,
\* the expression as written, the function it calls if any, and the
\* expression with the calls of that function resolved
TopAssignments ==
    {[text |-> "a = 1;", name |-> "a", expr |-> "1",
      callee |-> "", resolved |-> "1"],
     [text |-> "b = 5;", name |-> "b", expr |-> "5",
      callee |-> "", resolved |-> "5"],
     [text |-> "a = inc(a);", name |-> "a", expr |-> "inc(a)",
      callee |-> "inc", resolved |-> "inc_inst_0_result"],
     [text |-> "a = add(b, 1) + add(b);", name |-> "a",
      expr |-> "add(b, 1) + add(b)",
      callee |-> "add", resolved |-> "add_inst_0_result + add(b)"],
     [text |-> "a = f(a);", name |-> "a", expr |-> "f(a)",
      callee |-> "f", resolved |-> "f_inst_0_result"]}

\* the lines of the non-reset branch of the clocked block of the top module
MainLogicSection(ls) ==
    SubSeq(ls, LineIndex(ls, "        end else begin") + 1,
           LineIndex(ls, "        end") - 1)

\* the non-blocking update for the assignment d: its expression, with the
\* calls resolved when the function called is declared
ExpectedUpdate(d) ==
    "            " \o d.name \o " <= "
        \o (IF HasKey(functions, d.callee) THEN d.resolved ELSE d.expr) \o ";"

\* whether line is one of the lines ls
HasLine(ls, line) == \E k \in 1..Len(ls) : ls[k] = line

\* C17: every top-level assignment line 'v = e;' of the text is, in the
\* output of parse_and_convert, in the non-reset branch of the clocked block
\* of the top module as the non-blocking update 'v <= e2;', e2 the
\* call-resolved text of e, and no line 'assign v = ...;' is in the clocked
\* block.
C17_AssignmentsAreNonBlocking ==
    pc = "done" =>
        /\ \A d \in TopAssignments :
               HasLine(Split(Strip(input), "\n"), d.text)
               => HasLine(MainLogicSection(OutputLines), ExpectedUpdate(d))
        /\ \A k \in 1..Len(MainLogicSection(OutputLines)) :
               ~StartsWith(Strip(MainLogicSection(OutputLines)[k]), "assign ")

-----------------------------------------------------------------------------
(* The pending instances in the token pipeline.                            *)

\* the non-blocking update emitted for the statement st as recorded
RecordedUpdate(st) == "            " \o st[2] \o " <= " \o st[3] \o ";"

\* every statement recorded for a function is in the text as recorded
FunctionUpdatesAsRecorded(ls) ==
    \A f \in 1..Len(ast.functions) :
        \A k \in 1..Len(ast.functions[f].statements) :
            HasLine(ls, RecordedUpdate(ast.functions[f].statements[k]))

\* C18: in the token pipeline the pending-instances list and the call
\* counter are never modified: in every state of tokenize, build_ast and
\* generate_verilog the list is empty and the counter is 0, the text has no
\* instantiation block, and the expression of every assignment is emitted as
\* the AST builder recorded it, whatever the sync mode of the functions it
\* names.
C18_NoPendingInstances ==
    /\ sequential_calls = <<>>
    /\ call_counter = 0
    /\ pc = "done" =>
           /\ BlockStarts(OutputLines) = {}
           /\ MainLogicSection(OutputLines)
                  = [k \in 1..Len(ast.statements) |->
                        RecordedUpdate(ast.statements[k])]
           /\ FunctionUpdatesAsRecorded(OutputLines)

\* a function with a sequential parameter is declared and called, and the
\* text is generated
C18_Witness ==
    /\ pc = "done"
    /\ input = "function f(int.8::sequential c){ c = g(a); }\nb = f(a);"
    /\ Len(functions) = 1
    /\ functions[1].parameters[1].type_info.sync_mode = SEQUENTIAL
    /\ HasLine(OutputLines, "            b <= f;")
    /\ HasLine(OutputLines, "            c <= g ( a );")

=============================================================================
